---- MODULE Spec2Model ----
(***************************************************************************)
(* Reconciliation engine of the hub: the ingestion handlers                *)
(* (create_planets_batch, sync_empire, create_planet, the report upserts)  *)
(* and the SQL statements they issue, over a relational store.             *)
(*                                                                         *)
(* A table is a set of rows; every row carries the rowid the store gave    *)
(* it, so that two rows with one identity key are two elements of the set. *)
(* Text that the code parses or formats (coordinate strings) is a tuple of *)
(* one-character strings, and parsing and formatting are computed.         *)
(***************************************************************************)
EXTENDS Integers, Sequences, FiniteSets, TLC

VARIABLES db, now, nreq, last, scanned, submitted, inflight, applied

vars == <<db, now, nreq, last, scanned, submitted, inflight, applied>>

(* ------------------------------------------------------------------ *)
(* Bounds of the model                                                 *)
(* ------------------------------------------------------------------ *)
MaxReqs == 3
MaxBatch == 2
MaxDestroyed == 1
MaxPlanets == 1
MaxInflight == 2
MaxCalls == 4
MaxFailReqs == 2
MaxIds == 3
MaxScoreReqs == 3
MaxClock == 30
MaxStatsReqs == 3
MaxRows == 3
MaxReads == 1
MaxOwn == 3
MaxHalfHours == 95
MaxAuthReqs == 3
MaxKeyLen == 3
MaxAdminReqs == 3

(* SQL NULL / Option::None: for an integer column, and for a text column *)
NULL == 0 - 1
NONE == "NULL"

(* ------------------------------------------------------------------ *)
(* Text: split(':'), str::parse::<i64>(), format!("{}:{}:{}")           *)
(* ------------------------------------------------------------------ *)
IsDigit(c) == c \in {"0", "1", "2", "3", "4", "5", "6", "7", "8", "9"}

DigitVal(c) ==
    CASE c = "0" -> 0 [] c = "1" -> 1 [] c = "2" -> 2 [] c = "3" -> 3
      [] c = "4" -> 4 [] c = "5" -> 5 [] c = "6" -> 6 [] c = "7" -> 7
      [] c = "8" -> 8 [] c = "9" -> 9

DigitChar(d) ==
    CASE d = 0 -> "0" [] d = 1 -> "1" [] d = 2 -> "2" [] d = 3 -> "3"
      [] d = 4 -> "4" [] d = 5 -> "5" [] d = 6 -> "6" [] d = 7 -> "7"
      [] d = 8 -> "8" [] d = 9 -> "9"

RECURSIVE DigitsVal(_)
DigitsVal(s) ==
    IF s = <<>> THEN 0
    ELSE 10 * DigitsVal(SubSeq(s, 1, Len(s) - 1)) + DigitVal(s[Len(s)])

(* str::parse::<i64>: an optional sign, then one or more decimal digits *)
(* (leading zeros are accepted); anything else is an Err.               *)
parse_i64(s) ==
    LET signed == Len(s) > 0 /\ s[1] \in {"+", "-"}
        body   == IF signed THEN SubSeq(s, 2, Len(s)) ELSE s
    IN  IF body # <<>> /\ \A i \in 1..Len(body) : IsDigit(body[i])
        THEN [ok |-> TRUE,
              val |-> IF signed /\ s[1] = "-" THEN 0 - DigitsVal(body)
                      ELSE DigitsVal(body)]
        ELSE [ok |-> FALSE, val |-> 0]

(* str::split(':'): the parts between the separators, empty parts kept *)
RECURSIVE split(_)
split(s) ==
    IF \A i \in 1..Len(s) : s[i] # ":" THEN <<s>>
    ELSE LET k == CHOOSE i \in 1..Len(s) :
                      s[i] = ":" /\ \A j \in 1..(i - 1) : s[j] # ":"
         IN  <<SubSeq(s, 1, k - 1)>> \o split(SubSeq(s, k + 1, Len(s)))

(* Display of a non-negative i64 *)
RECURSIVE fmt_int(_)
fmt_int(n) ==
    IF n < 10 THEN <<DigitChar(n)>>
    ELSE fmt_int(n \div 10) \o <<DigitChar(n % 10)>>

(* format!("{}:{}:{}", galaxy, system, position) *)
fmt_coords(g, s, p) == fmt_int(g) \o <<":">> \o fmt_int(s) \o <<":">> \o fmt_int(p)

(* ------------------------------------------------------------------ *)
(* The store.  db.players, db.alliances, db.planets are the tables;     *)
(* db.reports holds the rows of the five report tables, each row with   *)
(* the kind of its table.                                               *)
(* ------------------------------------------------------------------ *)
EmptyDb == [players |-> {}, alliances |-> {}, planets |-> {}, reports |-> {},
            messages |-> {}, player_cols |-> {}, player_scores |-> {},
            users |-> {}, config |-> {}]

(* Result<(), sqlx::Error> of one statement, with the store it leaves *)
Ok(d) == [db |-> d, ok |-> TRUE]
Err(d) == [db |-> d, ok |-> FALSE]

(* Schema: players.id and alliances.id are primary keys; planets has a   *)
(* unique index on (coordinates, type), the conflict target named by the *)
(* upserts, a rowid, the column default status 'new', and the foreign    *)
(* key player_id -> players(id); players.alliance_id -> alliances(id).   *)
player_exists(d, id) == \E p \in d.players : p.id = id
alliance_exists(d, id) == \E a \in d.alliances : a.id = id
fk_player(d, player_id) == player_exists(d, player_id)
status_default == "new"
next_rowid(rows) ==
    IF rows = {} THEN 1
    ELSE 1 + (CHOOSE m \in {r.rowid : r \in rows} : \A r \in rows : r.rowid <= m)

(* Variant of players::ensure_exists: ON CONFLICT(id) DO UPDATE SET name *)
players_ensure_exists_overwrite(d, id, name) ==
    IF player_exists(d, id)
    THEN Ok([d EXCEPT !.players =
            {IF p.id = id THEN [p EXCEPT !.name = name] ELSE p : p \in @}])
    ELSE Ok([d EXCEPT !.players = @ \cup
            {[id |-> id, name |-> name, alliance_id |-> NULL, research |-> NONE]}])

(* players::ensure_exists: INSERT ... ON CONFLICT(id) DO NOTHING *)
players_ensure_exists(d, id, name) ==
    IF player_exists(d, id) THEN Ok(d)
    ELSE Ok([d EXCEPT !.players = @ \cup
            {[id |-> id, name |-> name, alliance_id |-> NULL, research |-> NONE]}])

(* alliances::ensure_exists: INSERT (id, name = tag, tag)               *)
(* ON CONFLICT(id) DO UPDATE SET tag = excluded.tag                     *)
alliances_ensure_exists(d, id, tag) ==
    IF alliance_exists(d, id)
    THEN Ok([d EXCEPT !.alliances =
            {IF a.id = id THEN [a EXCEPT !.tag = tag] ELSE a : a \in @}])
    ELSE Ok([d EXCEPT !.alliances = @ \cup {[id |-> id, name |-> tag, tag |-> tag]}])

(* Variant of players::update_alliance: WHERE id = ? *)
players_update_alliance_unguarded(d, player_id, alliance_id) ==
    Ok([d EXCEPT !.players =
        {IF p.id = player_id THEN [p EXCEPT !.alliance_id = alliance_id] ELSE p
            : p \in @}])

(* players::update_alliance: UPDATE players SET alliance_id = ?          *)
(* WHERE id = ? AND EXISTS (SELECT 1 FROM alliances WHERE id = ?)        *)
players_update_alliance(d, player_id, alliance_id) ==
    IF alliance_exists(d, alliance_id)
    THEN Ok([d EXCEPT !.players =
            {IF p.id = player_id THEN [p EXCEPT !.alliance_id = alliance_id] ELSE p
                : p \in @}])
    ELSE Ok(d)

(* players::update_research: UPDATE players SET research = ? WHERE id = ? *)
players_update_research(d, player_id, research_json) ==
    Ok([d EXCEPT !.players =
        {IF p.id = player_id THEN [p EXCEPT !.research = research_json] ELSE p
            : p \in @}])

(* The score and status columns of players, kept apart from the row:   *)
(* db.player_cols holds [id, col, val, rank] for every column of player *)
(* id that is not NULL (rank is the <col>_rank column of a score).      *)
col_of(d, id, col) == {c \in d.player_cols : c.id = id /\ c.col = col}

(* sync_statistics: INSERT INTO players (id, name) ON CONFLICT(id)      *)
(* DO UPDATE SET name = excluded.name                                   *)
players_upsert_name(d, id, name) ==
    IF player_exists(d, id)
    THEN Ok([d EXCEPT !.players =
            {IF p.id = id THEN [p EXCEPT !.name = name] ELSE p : p \in @}])
    ELSE Ok([d EXCEPT !.players = @ \cup
            {[id |-> id, name |-> name, alliance_id |-> NULL, research |-> NONE]}])

(* UPDATE players SET inactive_since = COALESCE(inactive_since,         *)
(* CURRENT_TIMESTAMP) WHERE id = ? AND inactive_since IS NULL           *)
players_set_inactive(d, id, t) ==
    IF player_exists(d, id) /\ col_of(d, id, "inactive_since") = {}
    THEN Ok([d EXCEPT !.player_cols = @ \cup
            {[id |-> id, col |-> "inactive_since", val |-> t, rank |-> NULL]}])
    ELSE Ok(d)

(* UPDATE players SET inactive_since = NULL WHERE id = ? *)
players_clear_inactive(d, id) ==
    Ok([d EXCEPT !.player_cols = @ \ col_of(d, id, "inactive_since")])

(* UPDATE players SET <col> = ?, <col>_rank = ? WHERE id = ? *)
players_set_score(d, col, score, rank, id) ==
    IF player_exists(d, id)
    THEN Ok([d EXCEPT !.player_cols = (@ \ col_of(d, id, col)) \cup
            {[id |-> id, col |-> col, val |-> score, rank |-> rank]}])
    ELSE Ok(d)

(* Variant of the history insert: the snapshot of the player is replaced *)
player_scores_insert_replace(d, player_id, score_total, rank_total, t) ==
    IF ~fk_player(d, player_id) THEN Err(d)
    ELSE Ok([d EXCEPT !.player_scores =
            {r \in @ : r.player_id # player_id} \cup
            {[rowid |-> next_rowid(d.player_scores), player_id |-> player_id,
              score_total |-> score_total, rank_total |-> rank_total,
              recorded_at |-> t]}])

(* INSERT INTO player_scores (player_id, score_total, rank_total,       *)
(* recorded_at) VALUES (?, ?, ?, CURRENT_TIMESTAMP)                     *)
player_scores_insert(d, player_id, score_total, rank_total, t) ==
    IF ~fk_player(d, player_id) THEN Err(d)
    ELSE Ok([d EXCEPT !.player_scores = @ \cup
            {[rowid |-> next_rowid(d.player_scores), player_id |-> player_id,
              score_total |-> score_total, rank_total |-> rank_total,
              recorded_at |-> t]}])

(* COALESCE(a, b) on an integer column *)
coalesce(a, b) == IF a # NULL THEN a ELSE b

(* The rows of planets that conflict with (coordinates, type) *)
planet_conflicts(d, coordinates, planet_type) ==
    {r \in d.planets : r.coordinates = coordinates /\ r.type = planet_type}

(* Variant of planets::upsert: planet_id = excluded.planet_id *)
planets_upsert_no_coalesce(d, player_id, coordinates, galaxy, system, planet, planet_type, name, pr0_planet_id, t) ==
    IF ~fk_player(d, player_id) THEN Err(d)
    ELSE IF planet_conflicts(d, coordinates, planet_type) # {}
    THEN Ok([d EXCEPT !.planets =
            {IF r.coordinates = coordinates /\ r.type = planet_type
             THEN [r EXCEPT !.name = name,
                            !.player_id = player_id,
                            !.planet_id = pr0_planet_id,
                            !.updated_at = t]
             ELSE r : r \in @}])
    ELSE Ok([d EXCEPT !.planets = @ \cup
            {[rowid |-> next_rowid(d.planets), coordinates |-> coordinates,
              galaxy |-> galaxy, system |-> system, planet |-> planet,
              type |-> planet_type, name |-> name, player_id |-> player_id,
              planet_id |-> pr0_planet_id, status |-> status_default,
              data |-> NONE, updated_at |-> t]}])

(* Variant of planets::upsert: ON CONFLICT(coordinates, type) DO NOTHING *)
planets_upsert_do_nothing(d, player_id, coordinates, galaxy, system, planet, planet_type, name, pr0_planet_id, t) ==
    IF ~fk_player(d, player_id) THEN Err(d)
    ELSE IF planet_conflicts(d, coordinates, planet_type) # {} THEN Ok(d)
    ELSE Ok([d EXCEPT !.planets = @ \cup
            {[rowid |-> next_rowid(d.planets), coordinates |-> coordinates,
              galaxy |-> galaxy, system |-> system, planet |-> planet,
              type |-> planet_type, name |-> name, player_id |-> player_id,
              planet_id |-> pr0_planet_id, status |-> status_default,
              data |-> NONE, updated_at |-> t]}])

(* planets::upsert: INSERT (name, player_id, coordinates, galaxy, system, *)
(* planet, type, planet_id) ON CONFLICT(coordinates, type) DO UPDATE SET  *)
(* name, player_id, planet_id = COALESCE(excluded, stored), updated_at    *)
planets_upsert(d, player_id, coordinates, galaxy, system, planet, planet_type, name, pr0_planet_id, t) ==
    IF ~fk_player(d, player_id) THEN Err(d)
    ELSE IF planet_conflicts(d, coordinates, planet_type) # {}
    THEN Ok([d EXCEPT !.planets =
            {IF r.coordinates = coordinates /\ r.type = planet_type
             THEN [r EXCEPT !.name = name,
                            !.player_id = player_id,
                            !.planet_id = coalesce(pr0_planet_id, r.planet_id),
                            !.updated_at = t]
             ELSE r : r \in @}])
    ELSE Ok([d EXCEPT !.planets = @ \cup
            {[rowid |-> next_rowid(d.planets), coordinates |-> coordinates,
              galaxy |-> galaxy, system |-> system, planet |-> planet,
              type |-> planet_type, name |-> name, player_id |-> player_id,
              planet_id |-> pr0_planet_id, status |-> status_default,
              data |-> NONE, updated_at |-> t]}])

(* Variant of planets::mark_deleted: WHERE coordinates = ? *)
planets_mark_deleted_any_type(d, coordinates, planet_type, t) ==
    Ok([d EXCEPT !.planets =
        {IF r.coordinates = coordinates
         THEN [r EXCEPT !.status = "deleted", !.updated_at = t]
         ELSE r : r \in @}])

(* planets::mark_deleted: UPDATE planets SET status = 'deleted',         *)
(* updated_at = CURRENT_TIMESTAMP WHERE coordinates = ? AND type = ?     *)
planets_mark_deleted(d, coordinates, planet_type, t) ==
    Ok([d EXCEPT !.planets =
        {IF r.coordinates = coordinates /\ r.type = planet_type
         THEN [r EXCEPT !.status = "deleted", !.updated_at = t]
         ELSE r : r \in @}])

(* Variant of planets::upsert_empire: a plain INSERT, no conflict clause *)
planets_upsert_empire_insert_only(d, player_id, pr0_planet_id, name, coordinates, galaxy, system, planet, data, t) ==
    IF ~fk_player(d, player_id) THEN Err(d)
    ELSE Ok([d EXCEPT !.planets = @ \cup
            {[rowid |-> next_rowid(d.planets), coordinates |-> coordinates,
              galaxy |-> galaxy, system |-> system, planet |-> planet,
              type |-> "PLANET", name |-> name, player_id |-> player_id,
              planet_id |-> pr0_planet_id, status |-> "seen",
              data |-> data, updated_at |-> t]}])

(* planets::upsert_empire: the full row of the empire page, type PLANET, *)
(* status 'seen'; on conflict every column of the snapshot is            *)
(* overwritten.  data stands for the snapshot columns the statement      *)
(* binds together (fields, temperature, points, production, and the      *)
(* resources, buildings, fleet and defense maps).                        *)
planets_upsert_empire(d, player_id, pr0_planet_id, name, coordinates, galaxy, system, planet, data, t) ==
    IF ~fk_player(d, player_id) THEN Err(d)
    ELSE IF planet_conflicts(d, coordinates, "PLANET") # {}
    THEN Ok([d EXCEPT !.planets =
            {IF r.coordinates = coordinates /\ r.type = "PLANET"
             THEN [r EXCEPT !.planet_id = pr0_planet_id,
                            !.player_id = player_id,
                            !.name = name,
                            !.data = data,
                            !.status = "seen",
                            !.updated_at = t]
             ELSE r : r \in @}])
    ELSE Ok([d EXCEPT !.planets = @ \cup
            {[rowid |-> next_rowid(d.planets), coordinates |-> coordinates,
              galaxy |-> galaxy, system |-> system, planet |-> planet,
              type |-> "PLANET", name |-> name, player_id |-> player_id,
              planet_id |-> pr0_planet_id, status |-> "seen",
              data |-> data, updated_at |-> t]}])

(* The upsert statement of a report table (queries/<kind>/upsert.sql):  *)
(* the external id is the conflict target, and on conflict the stored    *)
(* payload is overwritten by the submitted one; created_at is the time   *)
(* of the insert.                                                        *)
reports_upsert_sql(d, kind, external_id, payload, t) ==
    IF \E r \in d.reports : r.kind = kind /\ r.external_id = external_id
    THEN Ok([d EXCEPT !.reports =
            {IF r.kind = kind /\ r.external_id = external_id
             THEN [r EXCEPT !.payload = payload] ELSE r : r \in @}])
    ELSE Ok([d EXCEPT !.reports = @ \cup
            {[kind |-> kind,
              rowid |-> next_rowid({r \in d.reports : r.kind = kind}),
              external_id |-> external_id, payload |-> payload,
              created_at |-> t]}])

(* The columns a report upsert binds.  body stands for the type-specific *)
(* figures and maps of the request, bound together.                      *)
Payload(coordinates, planet_type, body, reported_by, report_time) ==
    [coordinates |-> coordinates, type |-> planet_type, body |-> body,
     reported_by |-> reported_by, report_time |-> report_time]

(* Variant of spy_reports::upsert: coordinates formatted system first *)
spy_reports_upsert_swapped(d, external_id, galaxy, system, planet, planet_type, body, reported_by, report_time, t) ==
    reports_upsert_sql(d, "spy", external_id,
        Payload(fmt_coords(system, galaxy, planet), planet_type, body,
                reported_by, report_time), t)

(* spy_reports::upsert *)
spy_reports_upsert(d, external_id, galaxy, system, planet, planet_type, body, reported_by, report_time, t) ==
    reports_upsert_sql(d, "spy", external_id,
        Payload(fmt_coords(galaxy, system, planet), planet_type, body,
                reported_by, report_time), t)

(* battle_reports::upsert *)
battle_reports_upsert(d, external_id, galaxy, system, planet, planet_type, body, report_time, reported_by, t) ==
    reports_upsert_sql(d, "battle", external_id,
        Payload(fmt_coords(galaxy, system, planet), planet_type, body,
                reported_by, report_time), t)

(* expedition_reports::upsert *)
expedition_reports_upsert(d, external_id, body, report_time, reported_by, t) ==
    reports_upsert_sql(d, "expedition", external_id,
        Payload(<<>>, NONE, body, reported_by, report_time), t)

(* recycle_reports::upsert *)
recycle_reports_upsert(d, external_id, galaxy, system, planet, body, report_time, reported_by, t) ==
    reports_upsert_sql(d, "recycle", external_id,
        Payload(fmt_coords(galaxy, system, planet), NONE, body, reported_by,
                report_time), t)

(* hostile_spying::upsert: the attacker and target coordinates are kept  *)
(* as the text submitted                                                 *)
hostile_spying_upsert(d, external_id, attacker_coordinates, target_coordinates, report_time, t) ==
    reports_upsert_sql(d, "hostile", external_id,
        Payload(<<attacker_coordinates, target_coordinates>>, NONE, NONE, NULL,
                report_time), t)

(* config::set_config: INSERT INTO config (key, value)                  *)
(* ON CONFLICT(key) DO UPDATE SET value = excluded.value                *)
set_config(d, key, value) ==
    Ok([d EXCEPT !.config = {c \in @ : c.key # key} \cup {[key |-> key, value |-> value]}])

(* ------------------------------------------------------------------ *)
(* A handler issues its statements one after another, each awaited and  *)
(* followed by `?`: the first Err ends the request and the statements   *)
(* before it stay committed.  A handler is the sequence of statements   *)
(* it issues for a request (none of them depends on a read).            *)
(* ------------------------------------------------------------------ *)
Stmt(op, args) == [op |-> op, args |-> args]

exec(d, st, t) ==
    LET a == st.args IN
    CASE st.op = "players::ensure_exists" -> players_ensure_exists(d, a[1], a[2])
      [] st.op = "alliances::ensure_exists" -> alliances_ensure_exists(d, a[1], a[2])
      [] st.op = "players::update_alliance" -> players_update_alliance(d, a[1], a[2])
      [] st.op = "players::update_research" -> players_update_research(d, a[1], a[2])
      [] st.op = "planets::upsert" ->
            planets_upsert(d, a[1], a[2], a[3], a[4], a[5], a[6], a[7], a[8], t)
      [] st.op = "planets::mark_deleted" -> planets_mark_deleted(d, a[1], a[2], t)
      [] st.op = "planets::upsert_empire" ->
            planets_upsert_empire(d, a[1], a[2], a[3], a[4], a[5], a[6], a[7], a[8], t)
      [] st.op = "spy_reports::upsert" ->
            spy_reports_upsert(d, a[1], a[2], a[3], a[4], a[5], a[6], a[7], a[8], t)
      [] st.op = "battle_reports::upsert" ->
            battle_reports_upsert(d, a[1], a[2], a[3], a[4], a[5], a[6], a[7], a[8], t)
      [] st.op = "expedition_reports::upsert" ->
            expedition_reports_upsert(d, a[1], a[2], a[3], a[4], t)
      [] st.op = "recycle_reports::upsert" ->
            recycle_reports_upsert(d, a[1], a[2], a[3], a[4], a[5], a[6], a[7], t)
      [] st.op = "hostile_spying::upsert" ->
            hostile_spying_upsert(d, a[1], a[2], a[3], a[4], t)
      [] st.op = "config::set_config" -> set_config(d, a[1], a[2])
      [] st.op = "players: upsert name" -> players_upsert_name(d, a[1], a[2])
      [] st.op = "players: set inactive_since" -> players_set_inactive(d, a[1], t)
      [] st.op = "players: clear inactive_since" -> players_clear_inactive(d, a[1])
      [] st.op = "players: set score" -> players_set_score(d, a[1], a[2], a[3], a[4])
      [] st.op = "player_scores: insert" -> player_scores_insert(d, a[1], a[2], a[3], t)

(* A planet/moon write, and the player it references *)
is_planet_write(st) == st.op \in {"planets::upsert", "planets::upsert_empire"}

(* run: the store after the statements, whether all of them succeeded,   *)
(* how many were executed, and whether a planet write was issued while   *)
(* the player it references had no row.                                  *)
RECURSIVE run(_, _, _)
run(d, stmts, t) ==
    IF stmts = <<>> THEN [db |-> d, ok |-> TRUE, done |-> 0, unresolved |-> FALSE]
    ELSE LET r   == exec(d, Head(stmts), t)
             unr == is_planet_write(Head(stmts)) /\ ~player_exists(d, Head(stmts).args[1])
         IN  IF ~r.ok
             THEN [db |-> r.db, ok |-> FALSE, done |-> 0, unresolved |-> unr]
             ELSE LET rest == run(r.db, Tail(stmts), t)
                  IN  [rest EXCEPT !.done = @ + 1, !.unresolved = @ \/ unr]

(* Variant of run_failing: the failed statement is passed over and the  *)
(* statements after it still run                                        *)
RECURSIVE run_failing_continue(_, _, _, _)
run_failing_continue(d, stmts, t, k) ==
    IF stmts = <<>> THEN [db |-> d, ok |-> TRUE, done |-> 0, unresolved |-> FALSE]
    ELSE LET r == IF k = 1 THEN Err(d) ELSE exec(d, Head(stmts), t)
             rest == run_failing_continue(r.db, Tail(stmts), t, k - 1)
         IN  IF ~r.ok THEN [rest EXCEPT !.ok = FALSE]
             ELSE [rest EXCEPT !.done = @ + 1]

(* run when the store fails on the k-th statement (k = 0: on none): the  *)
(* statement returns Err without effect and `?` ends the request.        *)
RECURSIVE run_failing(_, _, _, _)
run_failing(d, stmts, t, k) ==
    IF stmts = <<>> THEN [db |-> d, ok |-> TRUE, done |-> 0, unresolved |-> FALSE]
    ELSE LET r == IF k = 1 THEN Err(d) ELSE exec(d, Head(stmts), t)
         IN  IF ~r.ok
             THEN [db |-> r.db, ok |-> FALSE, done |-> 0, unresolved |-> FALSE]
             ELSE LET rest == run_failing(r.db, Tail(stmts), t, k - 1)
                  IN  [rest EXCEPT !.done = @ + 1]

RECURSIVE flatten(_)
flatten(ss) == IF ss = <<>> THEN <<>> ELSE Head(ss) \o flatten(Tail(ss))

(* Variant of the loop body: the player is linked before the alliance is ensured *)
batch_entry_link_first(req, p) ==
    IF ~(p.player_id # NULL /\ p.player_id > 0) THEN <<>>
    ELSE LET player_name == IF p.player_name # NONE THEN p.player_name ELSE "Unknown"
             coordinates == fmt_coords(req.galaxy, req.system, p.position)
         IN  <<Stmt("players::ensure_exists", <<p.player_id, player_name>>)>>
             \o (IF p.alliance_id # NULL /\ p.alliance_tag # NONE
                 THEN <<Stmt("players::update_alliance", <<p.player_id, p.alliance_id>>),
                        Stmt("alliances::ensure_exists", <<p.alliance_id, p.alliance_tag>>)>>
                 ELSE <<>>)
             \o <<Stmt("planets::upsert",
                       <<p.player_id, coordinates, req.galaxy, req.system, p.position,
                         "PLANET", p.planet_name, p.planet_id>>)>>
             \o (IF p.has_moon
                 THEN <<Stmt("planets::upsert",
                             <<p.player_id, coordinates, req.galaxy, req.system,
                               p.position, "MOON", p.moon_name, p.moon_id>>)>>
                 ELSE <<>>)

(* create_planets_batch, the loop body for one occupied position *)
batch_entry(req, p) ==
    IF ~(p.player_id # NULL /\ p.player_id > 0) THEN <<>>
    ELSE LET player_name == IF p.player_name # NONE THEN p.player_name ELSE "Unknown"
             coordinates == fmt_coords(req.galaxy, req.system, p.position)
         IN  <<Stmt("players::ensure_exists", <<p.player_id, player_name>>)>>
             \o (IF p.alliance_id # NULL /\ p.alliance_tag # NONE
                 THEN <<Stmt("alliances::ensure_exists", <<p.alliance_id, p.alliance_tag>>),
                        Stmt("players::update_alliance", <<p.player_id, p.alliance_id>>)>>
                 ELSE <<>>)
             \o <<Stmt("planets::upsert",
                       <<p.player_id, coordinates, req.galaxy, req.system, p.position,
                         "PLANET", p.planet_name, p.planet_id>>)>>
             \o (IF p.has_moon
                 THEN <<Stmt("planets::upsert",
                             <<p.player_id, coordinates, req.galaxy, req.system,
                               p.position, "MOON", p.moon_name, p.moon_id>>)>>
                 ELSE <<>>)

(* Variant of the marker name: the destroyed list is not looked at *)
marker_name_planets_only(req) ==
    IF req.planets = <<>> THEN "EMPTY" ELSE "SCANNED"

(* The sentinel name of the system marker *)
marker_name(req) ==
    IF req.planets = <<>> /\ req.destroyed = <<>> THEN "EMPTY" ELSE "SCANNED"

(* POST /api/planets/new *)
create_planets_batch(req) ==
    [bad |-> FALSE,
     stmts |->
        <<Stmt("players::ensure_exists", <<0, "System">>),
          Stmt("planets::upsert",
               <<0, fmt_coords(req.galaxy, req.system, 0), req.galaxy, req.system, 0,
                 "PLANET", marker_name(req), NULL>>)>>
        \o [i \in 1..Len(req.destroyed) |->
              Stmt("planets::mark_deleted",
                   <<fmt_coords(req.galaxy, req.system, req.destroyed[i].position),
                     req.destroyed[i].type>>)]
        \o flatten([i \in 1..Len(req.planets) |-> batch_entry(req, req.planets[i])])]

(* sync_empire, the loop body for one planet of the snapshot *)
empire_entry(player_id, planet) ==
    LET parts == split(planet.coordinates) IN
    IF Len(parts) # 3 THEN <<>>
    ELSE LET galaxy   == IF parse_i64(parts[1]).ok THEN parse_i64(parts[1]).val ELSE 0
             system   == IF parse_i64(parts[2]).ok THEN parse_i64(parts[2]).val ELSE 0
             position == IF parse_i64(parts[3]).ok THEN parse_i64(parts[3]).val ELSE 0
         IN  <<Stmt("planets::upsert_empire",
                    <<player_id, planet.external_id, planet.name, planet.coordinates,
                      galaxy, system, position, planet.data>>)>>

(* POST /api/empire, for the authenticated user *)
sync_empire(user, req) ==
    IF ~(req.player_id > 0) /\ user.player_id = NULL
    THEN [bad |-> TRUE, stmts |-> <<>>]
    ELSE LET player_id == IF req.player_id > 0 THEN req.player_id ELSE user.player_id
         IN  [bad |-> FALSE,
              stmts |->
                <<Stmt("players::ensure_exists", <<player_id, req.player_name>>)>>
                \o (IF user.alliance_id # NULL
                    THEN <<Stmt("players::update_alliance", <<player_id, user.alliance_id>>)>>
                    ELSE <<>>)
                \o <<Stmt("players::update_research", <<player_id, req.research>>)>>
                \o flatten([i \in 1..Len(req.planets) |->
                              empire_entry(player_id, req.planets[i])])]

(* create_planet (single planet) *)
create_planet(req) ==
    LET parts == split(req.coordinates) IN
    IF Len(parts) # 3 THEN [bad |-> TRUE, stmts |-> <<>>]
    ELSE IF ~parse_i64(parts[1]).ok \/ ~parse_i64(parts[2]).ok \/ ~parse_i64(parts[3]).ok
    THEN [bad |-> TRUE, stmts |-> <<>>]
    ELSE LET galaxy == parse_i64(parts[1]).val
             system == parse_i64(parts[2]).val
             planet == parse_i64(parts[3]).val
         IN  [bad |-> FALSE,
              stmts |->
                <<Stmt("planets::upsert",
                       <<req.player_id, req.coordinates, galaxy, system, planet,
                         "PLANET", req.planet_name, NULL>>)>>
                \o (IF req.moon_name # NONE
                    THEN <<Stmt("planets::upsert",
                                <<req.player_id, req.coordinates, galaxy, system, planet,
                                  "MOON", req.moon_name, NULL>>)>>
                    ELSE <<>>)]

(* POST /api/spy-reports *)
create_spy_report(user, req) ==
    [bad |-> FALSE,
     stmts |-> <<Stmt("spy_reports::upsert",
                      <<req.id, req.galaxy, req.system, req.planet, req.type, req.body,
                        IF user.player_id # NULL THEN user.player_id ELSE 1,
                        req.report_time>>)>>]

(* POST /api/battle-reports *)
create_battle_report(user, req) ==
    [bad |-> FALSE,
     stmts |-> <<Stmt("battle_reports::upsert",
                      <<req.id, req.galaxy, req.system, req.planet, req.type, req.body,
                        req.report_time, user.player_id>>)>>]

(* POST /api/expedition-reports *)
create_expedition_report(user, req) ==
    [bad |-> FALSE,
     stmts |-> <<Stmt("expedition_reports::upsert",
                      <<req.id, req.body, req.report_time, user.player_id>>)>>]

(* POST /api/recycle-reports *)
create_recycle_report(user, req) ==
    [bad |-> FALSE,
     stmts |-> <<Stmt("recycle_reports::upsert",
                      <<req.id, req.galaxy, req.system, req.planet, req.body,
                        req.report_time, user.player_id>>)>>]

(* POST /api/hostile-spying *)
create_hostile_spying(req) ==
    [bad |-> FALSE,
     stmts |-> <<Stmt("hostile_spying::upsert",
                      <<req.id, req.attacker_coordinates, req.target_coordinates,
                        req.report_time>>)>>]

(* sync_statistics: the column a stat_type updates, NONE for a type the *)
(* match does not know                                                  *)
stat_col(stat_type) ==
    CASE stat_type = "total" -> "score_total"
      [] stat_type = "fleet" -> "score_fleet"
      [] stat_type = "research" -> "score_research"
      [] stat_type = "buildings" -> "score_buildings"
      [] stat_type = "defense" -> "score_defense"
      [] stat_type = "honor" -> "honorpoints"
      [] OTHER -> NONE

(* sync_statistics, the loop body for one listed player *)
stat_entry(req, player) ==
    <<Stmt("players: upsert name", <<player.player_id, player.player_name>>)>>
    \o (IF player.is_long_inactive
        THEN <<Stmt("players: set inactive_since", <<player.player_id>>)>>
        ELSE IF ~player.is_inactive
        THEN <<Stmt("players: clear inactive_since", <<player.player_id>>)>>
        ELSE <<>>)
    \o (IF stat_col(req.stat_type) = NONE THEN <<>>
        ELSE <<Stmt("players: set score",
                    <<stat_col(req.stat_type), player.score, player.rank,
                      player.player_id>>)>>
             \o (IF req.stat_type = "total"
                 THEN <<Stmt("player_scores: insert",
                             <<player.player_id, player.score, player.rank>>)>>
                 ELSE <<>>))

(* POST /api/statistics/sync *)
sync_statistics(req) ==
    [bad |-> FALSE,
     stmts |-> flatten([i \in 1..Len(req.players) |-> stat_entry(req, req.players[i])])]

(* Option<i64> of a response *)
Some(v) == [some |-> TRUE, val |-> v]
None == [some |-> FALSE, val |-> 0]

(* Variant of score_before: the newest snapshot of the player *)
score_before_newest(d, player_id, cutoff, tie) ==
    LET olds == {r \in d.player_scores : r.player_id = player_id}
        top  == {r \in olds : \A o \in olds : o.recorded_at <= r.recorded_at}
    IN  IF olds = {} THEN None
        ELSE LET r == CHOOSE x \in top : \A o \in top :
                          IF tie = "low" THEN x.rowid <= o.rowid ELSE x.rowid >= o.rowid
             IN  Some(r.score_total)

(* get_overview: SELECT ps.score_total FROM player_scores ps            *)
(* WHERE ps.player_id = pl.id AND ps.recorded_at <= datetime('now',     *)
(* '-N hours') ORDER BY ps.recorded_at DESC LIMIT 1.  Among rows of one *)
(* recorded_at the order is not determined: tie says which one comes     *)
(* first.                                                               *)
score_before(d, player_id, cutoff, tie) ==
    LET olds == {r \in d.player_scores :
                    r.player_id = player_id /\ r.recorded_at <= cutoff}
        top  == {r \in olds : \A o \in olds : o.recorded_at <= r.recorded_at}
    IN  IF olds = {} THEN None
        ELSE LET r == CHOOSE x \in top : \A o \in top :
                          IF tie = "low" THEN x.rowid <= o.rowid ELSE x.rowid >= o.rowid
             IN  Some(r.score_total)

(* get_overview: (Some(curr), Some(old)) => Some(curr - old), _ => None *)
diff(curr, old) == IF curr.some /\ old.some THEN Some(curr.val - old.val) ELSE None

(* GET /api/hub/overview at time t: one row per PLANET row of a player  *)
(* other than the system player                                         *)
get_overview(d, t, tie) ==
    {LET score_total == IF col_of(d, pl.id, "score_total") = {} THEN None
                        ELSE Some((CHOOSE c \in col_of(d, pl.id, "score_total") : TRUE).val)
     IN  [id |-> p.rowid, coordinates |-> p.coordinates, player_id |-> pl.id,
          player_name |-> pl.name, score_total |-> score_total,
          diff06 |-> diff(score_total, score_before(d, pl.id, t - 6, tie)),
          diff12 |-> diff(score_total, score_before(d, pl.id, t - 12, tie)),
          diff18 |-> diff(score_total, score_before(d, pl.id, t - 18, tie)),
          diff24 |-> diff(score_total, score_before(d, pl.id, t - 24, tie))]
        : <<p, pl>> \in {<<r, q>> \in d.planets \X d.players :
                            /\ r.player_id = q.id /\ r.type = "PLANET"
                            /\ q.name # "System" /\ q.id # 0}}

(* i64 division: the quotient is truncated toward zero *)
idiv(a, b) == IF a >= 0 THEN a \div b ELSE 0 - ((0 - a) \div b)

(* SUM(<col>) over rows, the column read from the bound figures *)
RECURSIVE sum_col(_, _)
sum_col(rows, col) ==
    IF rows = {} THEN 0
    ELSE LET r == CHOOSE x \in rows : TRUE
         IN  r.payload.body[col] + sum_col(rows \ {r}, col)

(* The rows a statistics query aggregates: WHERE reported_by = ?, and   *)
(* with last_24h also AND created_at > datetime('now', '-24 hours')     *)
stats_rows(d, kind, user_id, last_24h, t) ==
    {r \in d.reports :
        /\ r.kind = kind /\ r.payload.reported_by = user_id
        /\ (last_24h => r.created_at > t - 24)}

(* SUM(CASE WHEN created_at > datetime('now', '-24 hours') THEN 1 ELSE  *)
(* 0 END)                                                               *)
count_24h(rows, t) == Cardinality({r \in rows : r.created_at > t - 24})

ActivityStats(count, count24, metal, crystal, deuterium, points) ==
    [count |-> count, count_24h |-> count24, metal |-> metal, crystal |-> crystal,
     deuterium |-> deuterium, points |-> points]

(* get_expo_stats: expedition_reports, resources '$.901', '$.902', '$.903' *)
get_expo_stats(d, user_id, last_24h, t) ==
    LET rows == stats_rows(d, "expedition", user_id, last_24h, t)
        metal == sum_col(rows, "metal")
        crystal == sum_col(rows, "crystal")
        deuterium == sum_col(rows, "deuterium")
    IN  ActivityStats(Cardinality(rows), count_24h(rows, t), metal, crystal, deuterium,
                      idiv(metal + crystal + deuterium, 1000))

get_raid_stats(d, user_id, last_24h, t) ==
    LET rows == stats_rows(d, "battle", user_id, last_24h, t)
        metal == sum_col(rows, "metal")
        crystal == sum_col(rows, "crystal")
        deuterium == sum_col(rows, "deuterium")
    IN  ActivityStats(Cardinality(rows), count_24h(rows, t), metal, crystal, deuterium,
                      idiv(metal + crystal + deuterium, 1000))

get_recycle_stats(d, user_id, last_24h, t) ==
    LET rows == stats_rows(d, "recycle", user_id, last_24h, t)
        metal == sum_col(rows, "metal")
        crystal == sum_col(rows, "crystal")
    IN  ActivityStats(Cardinality(rows), count_24h(rows, t), metal, crystal, 0,
                      idiv(metal + crystal, 1000))

(* GET /api/hub/stats at time t: the caller's own statistics of all     *)
(* time and, for a caller with an alliance, those of the last 24 hours  *)
(* of every player of the alliance                                      *)
get_stats(d, user, t) ==
    IF user.player_id = NULL
    THEN [bad |-> TRUE, own_stats |-> <<>>, has_alliance |-> FALSE, alliance_stats |-> {}]
    ELSE [bad |-> FALSE,
          own_stats |-> [expos |-> get_expo_stats(d, user.player_id, FALSE, t),
                         raids |-> get_raid_stats(d, user.player_id, FALSE, t),
                         recycling |-> get_recycle_stats(d, user.player_id, FALSE, t)],
          has_alliance |-> user.alliance_id # NULL,
          alliance_stats |->
              IF user.alliance_id = NULL THEN {}
              ELSE {[id |-> p.id, name |-> p.name,
                     expos |-> get_expo_stats(d, p.id, TRUE, t),
                     raids |-> get_raid_stats(d, p.id, TRUE, t),
                     recycling |-> get_recycle_stats(d, p.id, TRUE, t)] :
                        p \in {q \in d.players : q.alliance_id = user.alliance_id}}]

(* ------------------------------------------------------------------ *)
(* Requests                                                             *)
(* ------------------------------------------------------------------ *)
BoundedSeq(S, n) == UNION {[1..k -> S] : k \in 0..n}

Entry(position, player_id, player_name, planet_name, moon_name, has_moon, planet_id, moon_id, alliance_id, alliance_tag) ==
    [position |-> position, player_id |-> player_id, player_name |-> player_name,
     planet_name |-> planet_name, moon_name |-> moon_name, has_moon |-> has_moon,
     planet_id |-> planet_id, moon_id |-> moon_id,
     alliance_id |-> alliance_id, alliance_tag |-> alliance_tag]

(* PlanetInput values: a first sighting with moon, external id and      *)
(* alliance; another owner of the same position without external id;    *)
(* a known player under another name; a position without player.        *)
ScanEntries ==
    {Entry(1, 1, "Ann", "Home", "Luna", TRUE, 71, NULL, 1, "AA"),
     Entry(1, 2, NONE, "Base", NONE, FALSE, NULL, NULL, 1, "BB"),
     Entry(2, 1, "Anna", "Colony", NONE, FALSE, 72, NULL, NULL, NONE),
     Entry(2, NULL, NONE, "Nobody", NONE, FALSE, NULL, NULL, NULL, NONE)}

DestroyedInputs == {[position |-> 1, type |-> "PLANET"], [position |-> 1, type |-> "MOON"]}

ScanSystems == {<<1, 1>>, <<1, 2>>}

ScanReqs ==
    {[galaxy |-> gs[1], system |-> gs[2], planets |-> ps, destroyed |-> ds] :
        gs \in ScanSystems, ps \in BoundedSeq(ScanEntries, MaxBatch),
        ds \in BoundedSeq(DestroyedInputs, MaxDestroyed)}

(* Authenticated users: one linked to player 1 and alliance 1, one with  *)
(* no links.                                                             *)
Users == {[player_id |-> 1, alliance_id |-> 1], [player_id |-> NULL, alliance_id |-> NULL]}

EmpirePlanet(external_id, name, coordinates, data) ==
    [external_id |-> external_id, name |-> name, coordinates |-> coordinates, data |-> data]

(* EmpirePlanet values: "1:1:1", "01:1:1" (same triple, other text),     *)
(* "1:1" (two parts) and "x:1:1" (no integer galaxy).                    *)
EmpirePlanets ==
    {EmpirePlanet(71, "Home", <<"1", ":", "1", ":", "1">>, "snapshot-a"),
     EmpirePlanet(75, "Main", <<"0", "1", ":", "1", ":", "1">>, "snapshot-b"),
     EmpirePlanet(76, "Short", <<"1", ":", "1">>, "snapshot-a"),
     EmpirePlanet(77, "Odd", <<"x", ":", "1", ":", "1">>, "snapshot-a")}

EmpireReqs ==
    {[player_id |-> pid, player_name |-> "Ann", research |-> "research-a", planets |-> ps] :
        pid \in {0, 2}, ps \in BoundedSeq(EmpirePlanets, MaxPlanets)}

PlanetReqs ==
    {[coordinates |-> c, player_id |-> pid, planet_name |-> "Outpost", moon_name |-> m] :
        c \in {<<"1", ":", "1", ":", "1">>, <<"0", "1", ":", "1", ":", "1">>,
               <<"1", ":", "1">>, <<"1", ":", "y", ":", "1">>},
        pid \in {1, 3}, m \in {NONE, "Selene"}}

ReportKinds == {"spy", "battle", "expedition", "recycle", "hostile"}
ReportIds == {501, 502}
ReportKeys == ReportKinds \X ReportIds
NoSubmission == [set |-> FALSE, req |-> <<>>, user |-> <<>>]

(* Two submissions per external id that differ in every field *)
ReportVariants ==
    {[galaxy |-> 1, system |-> 1, planet |-> 1, type |-> "PLANET", body |-> "body-a",
      report_time |-> "2025-01-01 10:00:00"],
     [galaxy |-> 1, system |-> 2, planet |-> 3, type |-> "MOON", body |-> "body-b",
      report_time |-> NONE]}

CoordReportReqs ==
    {[id |-> id, galaxy |-> v.galaxy, system |-> v.system, planet |-> v.planet,
      type |-> v.type, body |-> v.body, report_time |-> v.report_time] :
        id \in ReportIds, v \in ReportVariants}

ExpeditionReqs ==
    {[id |-> id, body |-> v.body, report_time |-> v.report_time] :
        id \in ReportIds, v \in ReportVariants}

HostileReqs ==
    {[id |-> id,
      attacker_coordinates |-> fmt_coords(v.galaxy, v.system, v.planet),
      target_coordinates |-> IF v.report_time = NONE THEN <<>> ELSE <<"1", ":", "1", ":", "2">>,
      report_time |-> v.report_time] :
        id \in ReportIds, v \in ReportVariants}

(* ------------------------------------------------------------------ *)
(* Actions: one request, handled from start to end                      *)
(* ------------------------------------------------------------------ *)
NoUser == [player_id |-> NULL, alliance_id |-> NULL]

Init ==
    /\ db = EmptyDb
    /\ now = 0
    /\ nreq = 0
    /\ last = [kind |-> "none", req |-> <<>>, user |-> NoUser, result |-> "none",
               done |-> 0, unresolved |-> FALSE, again |-> FALSE]
    /\ scanned = [gs \in ScanSystems |-> 0]
    /\ submitted = [k \in ReportKeys |-> NoSubmission]
    /\ inflight = <<>>
    /\ applied = [keys |-> {}, turn |-> 0, switches |-> 0]

(* The request runs at second now + 1; its outcome is recorded in last, *)
(* and scanned keeps the second of the latest scan of each system.      *)
Handle(kind, req, user, h) ==
    /\ nreq' = nreq + 1
    /\ now' = now + 1
    /\ \E r \in {run(db, h.stmts, now + 1)} :
       /\ db' = r.db
       /\ last' = [kind |-> kind, req |-> req, user |-> user,
                   result |-> IF h.bad THEN "bad_request"
                              ELSE IF r.ok THEN "ok" ELSE "database_error",
                   done |-> r.done, unresolved |-> r.unresolved,
                   again |-> last.kind = kind /\ last.req = req /\ last.user = user]
    /\ scanned' = IF kind = "scan"
                  THEN [scanned EXCEPT ![<<req.galaxy, req.system>>] = now + 1]
                  ELSE scanned
    /\ submitted' = IF kind \in ReportKinds
                    THEN [submitted EXCEPT ![<<kind, req.id>>] =
                             [set |-> TRUE, req |-> req, user |-> user]]
                    ELSE submitted
    /\ UNCHANGED <<inflight, applied>>

GalaxyScan == \E req \in ScanReqs :
        /\ nreq < MaxReqs
        /\ Handle("scan", req, NoUser, create_planets_batch(req))

EmpireSync ==
    \E user \in Users : \E req \in EmpireReqs :
        /\ nreq < MaxReqs
        /\ Handle("empire", req, user, sync_empire(user, req))

CreatePlanet == \E req \in PlanetReqs :
        /\ nreq < MaxReqs
        /\ Handle("planet", req, NoUser, create_planet(req))

Next == GalaxyScan \/ EmpireSync \/ CreatePlanet

Spec == Init /\ [][Next]_vars

CreateSpyReport ==
    \E user \in Users : \E req \in CoordReportReqs :
        /\ nreq < MaxReqs
        /\ Handle("spy", req, user, create_spy_report(user, req))

CreateBattleReport ==
    \E user \in Users : \E req \in CoordReportReqs :
        /\ nreq < MaxReqs
        /\ Handle("battle", req, user, create_battle_report(user, req))

CreateExpeditionReport ==
    \E user \in Users : \E req \in ExpeditionReqs :
        /\ nreq < MaxReqs
        /\ Handle("expedition", req, user, create_expedition_report(user, req))

CreateRecycleReport ==
    \E user \in Users : \E req \in CoordReportReqs :
        /\ nreq < MaxReqs
        /\ Handle("recycle", req, user, create_recycle_report(user, req))

CreateHostileSpying ==
    \E req \in HostileReqs :
        /\ nreq < MaxReqs
        /\ Handle("hostile", req, NoUser, create_hostile_spying(req))

NextReports ==
    \/ CreateSpyReport
    \/ CreateBattleReport
    \/ CreateExpeditionReport
    \/ CreateRecycleReport
    \/ CreateHostileSpying

SpecReports == Init /\ [][NextReports]_vars

(* ------------------------------------------------------------------ *)
(* Concurrent requests.  Every statement of a handler is awaited on the  *)
(* shared pool, so the statements of the requests in flight interleave   *)
(* one statement at a time, each statement atomic in the store.          *)
(* inflight holds the requests with the position each has reached;       *)
(* applied.keys holds, for every identity key, the latest write applied  *)
(* to it, applied.turn the request that moved last and applied.switches  *)
(* how often the turn changed (counted up to 2).                         *)
(* ------------------------------------------------------------------ *)
ConcScanReqs ==
    {[galaxy |-> 1, system |-> 1, planets |-> ps, destroyed |-> ds] :
        ps \in BoundedSeq(ScanEntries, MaxPlanets),
        ds \in BoundedSeq(DestroyedInputs, MaxDestroyed)}

(* A write to an identity key: the key is the class with the identity *)
Write(class, id, vals) == [class |-> class, id |-> <<class>> \o id, vals |-> vals]

(* The write a statement applies in store d, as a set of none or one *)
written(d, st) ==
    LET a == st.args IN
    CASE st.op = "players::ensure_exists" -> {Write("player", <<a[1]>>, [name |-> a[2]])}
      [] st.op = "alliances::ensure_exists" -> {Write("alliance", <<a[1]>>, [tag |-> a[2]])}
      [] st.op = "players::update_alliance" ->
            IF player_exists(d, a[1]) /\ alliance_exists(d, a[2])
            THEN {Write("link", <<a[1]>>, [alliance_id |-> a[2]])} ELSE {}
      [] st.op = "players::update_research" ->
            IF player_exists(d, a[1])
            THEN {Write("research", <<a[1]>>, [research |-> a[2]])} ELSE {}
      [] st.op = "planets::upsert" ->
            {Write("planet", <<a[2], a[6]>>,
                   [name |-> a[7], player_id |-> a[1], planet_id |-> a[8]])}
      [] st.op = "planets::upsert_empire" ->
            {Write("planet", <<a[4], "PLANET">>,
                   [name |-> a[3], player_id |-> a[1], planet_id |-> a[2]])}
      [] st.op = "spy_reports::upsert" ->
            {Write("report", <<"spy", a[1]>>,
                   [galaxy |-> a[2], system |-> a[3], planet |-> a[4], type |-> a[5],
                    body |-> a[6], reported_by |-> a[7], report_time |-> a[8]])}
      [] OTHER -> {}

record(keys, ws) ==
    {k \in keys : \A w \in ws : ~(w.class = k.class /\ w.id = k.id)} \cup ws

Arrive(kind, req, user, h) ==
    /\ applied.turn = 0
    /\ inflight' = Append(inflight, [kind |-> kind, req |-> req, user |-> user,
                                     stmts |-> h.stmts, pc |-> 1, ok |-> ~h.bad])
    /\ UNCHANGED <<db, now, nreq, last, scanned, submitted, applied>>

ArriveScan == \E req \in ConcScanReqs :
        /\ Len(inflight) < MaxInflight
        /\ Arrive("scan", req, NoUser, create_planets_batch(req))

ArriveEmpire ==
    \E user \in Users : \E req \in EmpireReqs :
        /\ Len(inflight) < MaxInflight
        /\ Arrive("empire", req, user, sync_empire(user, req))

ArriveSpyReport ==
    \E user \in Users : \E req \in CoordReportReqs :
        /\ Len(inflight) < MaxInflight
        /\ Arrive("spy", req, user, create_spy_report(user, req))

(* The next statement of request i runs; an Err ends the request *)
StepStmt ==
    \E i \in 1..Len(inflight) :
        /\ inflight[i].pc <= Len(inflight[i].stmts)
        /\ \E st \in {inflight[i].stmts[inflight[i].pc]} :
           \E r \in {exec(db, st, now)} :
              /\ db' = r.db
              /\ inflight' = [inflight EXCEPT
                                ![i].pc = IF r.ok THEN @ + 1 ELSE Len(inflight[i].stmts) + 1,
                                ![i].ok = r.ok]
              /\ applied' = [keys |-> IF r.ok THEN record(applied.keys, written(db, st))
                                      ELSE applied.keys,
                             turn |-> i,
                             switches |-> IF applied.turn \notin {0, i} /\ applied.switches < 2
                                          THEN applied.switches + 1 ELSE applied.switches]
        /\ UNCHANGED <<now, nreq, last, scanned, submitted>>

NextConc == ArriveScan \/ ArriveEmpire \/ ArriveSpyReport \/ StepStmt

SpecConc == Init /\ [][NextConc]_vars

(* ------------------------------------------------------------------ *)
(* The entity resolver called on its own: one statement per step        *)
(* ------------------------------------------------------------------ *)
ResolverIds == {1, 2}
ResolverNames == {"Ann", "Bob"}
ResolverTags == {"AA", "BB"}

one_stmt(op, args) == [bad |-> FALSE, stmts |-> <<Stmt(op, args)>>]

EnsurePlayer ==
    \E id \in ResolverIds : \E name \in ResolverNames :
        /\ nreq < MaxCalls
        /\ Handle("ensure_player", [id |-> id, name |-> name], NoUser,
                  one_stmt("players::ensure_exists", <<id, name>>))

EnsureAlliance ==
    \E id \in ResolverIds : \E tag \in ResolverTags :
        /\ nreq < MaxCalls
        /\ Handle("ensure_alliance", [id |-> id, tag |-> tag], NoUser,
                  one_stmt("alliances::ensure_exists", <<id, tag>>))

LinkPlayerAlliance ==
    \E player_id \in ResolverIds : \E alliance_id \in ResolverIds :
        /\ nreq < MaxCalls
        /\ Handle("link_player_alliance",
                  [player_id |-> player_id, alliance_id |-> alliance_id], NoUser,
                  one_stmt("players::update_alliance", <<player_id, alliance_id>>))

NextResolver == EnsurePlayer \/ EnsureAlliance \/ LinkPlayerAlliance

SpecResolver == Init /\ [][NextResolver]_vars

(* ------------------------------------------------------------------ *)
(* Storage failures: the store may fail on any one statement of a       *)
(* request (fault = k), or on none (fault = 0).                         *)
(* ------------------------------------------------------------------ *)
HandleFailing(kind, req, user, h, k) ==
    /\ nreq' = nreq + 1
    /\ now' = now + 1
    /\ \E r \in {run_failing(db, h.stmts, now + 1, k)} :
       /\ db' = r.db
       /\ last' = [kind |-> kind, req |-> req, user |-> user,
                   result |-> IF h.bad THEN "bad_request"
                              ELSE IF r.ok THEN "ok" ELSE "database_error",
                   done |-> r.done, unresolved |-> FALSE, again |-> FALSE,
                   fault |-> k]
    /\ scanned' = IF kind = "scan" /\ k # 1 /\ k # 2
                  THEN [scanned EXCEPT ![<<req.galaxy, req.system>>] = now + 1]
                  ELSE scanned
    /\ UNCHANGED <<submitted, inflight, applied>>

ScanStoreFailure ==
    \E req \in ConcScanReqs :
        \E k \in 0..Len(create_planets_batch(req).stmts) :
            /\ nreq < MaxFailReqs
            /\ HandleFailing("scan", req, NoUser, create_planets_batch(req), k)

EmpireStoreFailure ==
    \E user \in Users : \E req \in EmpireReqs :
        \E k \in 0..Len(sync_empire(user, req).stmts) :
            /\ nreq < MaxFailReqs
            /\ HandleFailing("empire", req, user, sync_empire(user, req), k)

NextFail == ScanStoreFailure \/ EmpireStoreFailure

SpecFail == Init /\ [][NextFail]_vars

(* ------------------------------------------------------------------ *)
(* Message deduplication                                                *)
(* ------------------------------------------------------------------ *)
Range(seq) == {seq[i] : i \in 1..Len(seq)}

(* messages::get_existing_ids: SELECT external_id FROM messages         *)
(* WHERE external_id IN (ids); the ids found, as the set `contains` is   *)
(* asked of                                                              *)
messages_get_existing_ids(d, ids) ==
    {m.external_id : m \in {r \in d.messages : r.external_id \in Range(ids)}}

(* messages::insert_batch: INSERT OR IGNORE INTO messages (external_id); *)
(* external_id is the unique key of the table                            *)
messages_insert_batch(d, ids) ==
    IF ids = <<>> THEN Ok(d)
    ELSE Ok([d EXCEPT !.messages = @ \cup {[external_id |-> ids[i]] : i \in 1..Len(ids)}])

(* POST /api/messages: the store and the new_ids of the response *)
check_messages(d, req) ==
    LET existing == messages_get_existing_ids(d, req.message_ids)
        new_ids  == SelectSeq(req.message_ids, LAMBDA id : id \notin existing)
        r        == IF new_ids # <<>> THEN messages_insert_batch(d, new_ids) ELSE Ok(d)
    IN  [db |-> r.db, ok |-> r.ok, new_ids |-> new_ids]

MessageIds == {7, 8, 9}

MessageReqs == {[message_ids |-> ids] : ids \in BoundedSeq(MessageIds, MaxIds)}

CheckMessages ==
    \E req \in MessageReqs :
        /\ nreq < MaxReqs
        /\ nreq' = nreq + 1
        /\ now' = now + 1
        /\ \E r \in {check_messages(db, req)} :
           /\ db' = r.db
           /\ last' = [kind |-> "messages", req |-> req, user |-> NoUser,
                       result |-> IF r.ok THEN "ok" ELSE "database_error",
                       new_ids |-> r.new_ids]
        /\ UNCHANGED <<scanned, submitted, inflight, applied>>

NextMessages == CheckMessages

SpecMessages == Init /\ [][NextMessages]_vars

(* ------------------------------------------------------------------ *)
(* check_messages calls in flight together: each call awaits the read   *)
(* of the existing ids and then the insert, and another call can run     *)
(* between the two.  inflight holds the calls with their position       *)
(* ("read", "insert", "done") and the new_ids they computed.             *)
(* ------------------------------------------------------------------ *)
ConcMessageReqs ==
    {[message_ids |-> ids] :
        ids \in {q \in BoundedSeq(MessageIds, MaxBatch) :
                    \A i \in 1..Len(q) : \A j \in 1..Len(q) : q[i] = q[j] => i = j}}

MessagesArrive ==
    \E req \in ConcMessageReqs :
        /\ Len(inflight) < MaxInflight
        /\ inflight' = Append(inflight, [kind |-> "messages", req |-> req, pc |-> "read",
                                         new_ids |-> <<>>])
        /\ UNCHANGED <<db, now, nreq, last, scanned, submitted, applied>>

(* messages::get_existing_ids and the filter; a call with no new id     *)
(* answers at once                                                       *)
MessagesRead ==
    \E i \in 1..Len(inflight) :
        /\ inflight[i].kind = "messages" /\ inflight[i].pc = "read"
        /\ \E existing \in {messages_get_existing_ids(db, inflight[i].req.message_ids)} :
           \E new_ids \in {SelectSeq(inflight[i].req.message_ids,
                                      LAMBDA id : id \notin existing)} :
              inflight' = [inflight EXCEPT ![i].new_ids = new_ids,
                                           ![i].pc = IF new_ids = <<>> THEN "done"
                                                     ELSE "insert"]
        /\ UNCHANGED <<db, now, nreq, last, scanned, submitted, applied>>

(* messages::insert_batch and the response *)
MessagesInsert ==
    \E i \in 1..Len(inflight) :
        /\ inflight[i].kind = "messages" /\ inflight[i].pc = "insert"
        /\ db' = messages_insert_batch(db, inflight[i].new_ids).db
        /\ inflight' = [inflight EXCEPT ![i].pc = "done"]
        /\ UNCHANGED <<now, nreq, last, scanned, submitted, applied>>

NextMessagesConc == MessagesArrive \/ MessagesRead \/ MessagesInsert

SpecMessagesConc == Init /\ [][NextMessagesConc]_vars

(* ------------------------------------------------------------------ *)
(* Score history.  The clock counts hours; a request takes one.         *)
(* ------------------------------------------------------------------ *)
PlayerStat(player_id, player_name, rank, score, is_inactive, is_long_inactive) ==
    [player_id |-> player_id, player_name |-> player_name, rank |-> rank,
     score |-> score, is_inactive |-> is_inactive, is_long_inactive |-> is_long_inactive]

StatLists ==
    LET e1 == PlayerStat(1, "Ann", 2, 100, FALSE, FALSE)
        e2 == PlayerStat(1, "Ann", 1, 150, TRUE, FALSE)
        e3 == PlayerStat(2, "Bob", 3, 100, FALSE, TRUE)
    IN  {<<>>, <<e1>>, <<e2>>, <<e3>>, <<e1, e3>>, <<e1, e2>>}

StatTypes == {"total", "fleet", "bogus"}

StatReqs == {[stat_type |-> ty, players |-> ps] : ty \in StatTypes, ps \in StatLists}

ScoreScanReqs ==
    {req \in ConcScanReqs :
        /\ req.destroyed = <<>> /\ Len(req.planets) = 1
        /\ req.planets[1].player_id # NULL}

TickHours == {7, 17}

ScoreScan ==
    \E req \in ScoreScanReqs :
        /\ nreq < MaxScoreReqs
        /\ Handle("scan", req, NoUser, create_planets_batch(req))

SyncStatistics ==
    \E req \in StatReqs :
        /\ nreq < MaxScoreReqs
        /\ Handle("stats", req, NoUser, sync_statistics(req))

AdvanceClock ==
    \E h \in TickHours :
        /\ now + h <= MaxClock
        /\ now' = now + h
        /\ UNCHANGED <<db, nreq, last, scanned, submitted, inflight, applied>>

GetOverview ==
    \E tie \in {"low", "high"} :
        /\ nreq > 0
        /\ last' = [kind |-> "overview", req |-> <<>>, user |-> NoUser, result |-> "ok",
                    planets |-> get_overview(db, now, tie)]
        /\ UNCHANGED <<db, now, nreq, scanned, submitted, inflight, applied>>

NextScores == ScoreScan \/ SyncStatistics \/ AdvanceClock \/ GetOverview

SpecScores == Init /\ [][NextScores]_vars

(* ------------------------------------------------------------------ *)
(* Activity statistics.  The clock counts hours; a request takes one.   *)
(* ------------------------------------------------------------------ *)
Loot(metal, crystal, deuterium) ==
    [metal |-> metal, crystal |-> crystal, deuterium |-> deuterium]

Loots == {Loot(600, 500, 400), Loot(700, 500, 300)}

StatsExpeditionReqs ==
    {[id |-> id, body |-> b, report_time |-> NONE] : id \in ReportIds, b \in Loots}

StatsCoordReqs ==
    {[id |-> 501, galaxy |-> 1, system |-> 1, planet |-> 1, type |-> "PLANET",
      body |-> b, report_time |-> NONE] : b \in Loots}

(* Scans of one entry whose player has an alliance *)
StatsScanReqs ==
    {req \in ConcScanReqs :
        /\ req.destroyed = <<>> /\ Len(req.planets) = 1
        /\ req.planets[1].alliance_id # NULL}

StatsScan ==
    \E req \in StatsScanReqs :
        /\ nreq < MaxStatsReqs
        /\ Handle("scan", req, NoUser, create_planets_batch(req))

StatsExpedition ==
    \E user \in Users : \E req \in StatsExpeditionReqs :
        /\ nreq < MaxStatsReqs
        /\ Handle("expedition", req, user, create_expedition_report(user, req))

StatsBattle ==
    \E user \in Users : \E req \in StatsCoordReqs :
        /\ nreq < MaxStatsReqs
        /\ Handle("battle", req, user, create_battle_report(user, req))

StatsRecycle ==
    \E user \in Users : \E req \in StatsCoordReqs :
        /\ nreq < MaxStatsReqs
        /\ Handle("recycle", req, user, create_recycle_report(user, req))

StatsClock ==
    \E h \in TickHours :
        /\ now + h <= MaxClock
        /\ now' = now + h
        /\ UNCHANGED <<db, nreq, last, scanned, submitted, inflight, applied>>

GetStats ==
    \E user \in Users : \E r \in {get_stats(db, user, now)} :
        /\ nreq > 0
        /\ last' = [kind |-> "hubstats", req |-> <<>>, user |-> user,
                    result |-> IF r.bad THEN "bad_request" ELSE "ok",
                    stats |-> r]
        /\ UNCHANGED <<db, now, nreq, scanned, submitted, inflight, applied>>

NextStats ==
    \/ StatsScan
    \/ StatsExpedition
    \/ StatsBattle
    \/ StatsRecycle
    \/ StatsClock
    \/ GetStats

SpecStats == Init /\ [][NextStats]_vars

(* ------------------------------------------------------------------ *)
(* Leaderboards: the maximum level per tech or building id over the     *)
(* rows of the alliance, in the order the query returns them.  A row is  *)
(* [name, json]; json is the decoded column: ok is FALSE for a NULL      *)
(* column or a text that is no map of integers, levels the pairs         *)
(* <<id, level>> of the map.                                             *)
(* ------------------------------------------------------------------ *)
unwrap_or_default(name) == IF name = NONE THEN "" ELSE name

(* Variant of max_entry: an equal level replaces the holder *)
max_entry_last_wins(result, id, level, name) ==
    IF \E e \in result : e.id = id
    THEN {IF e.id = id /\ level >= e.max_level
          THEN [id |-> id, max_level |-> level, player_name |-> unwrap_or_default(name)]
          ELSE e : e \in result}
    ELSE result \cup {[id |-> id, max_level |-> level,
                       player_name |-> unwrap_or_default(name)]}

(* result.entry(id).and_modify(|e| if level > e.max_level {..})         *)
(*       .or_insert(..)                                                  *)
max_entry(result, id, level, name) ==
    IF \E e \in result : e.id = id
    THEN {IF e.id = id /\ level > e.max_level
          THEN [id |-> id, max_level |-> level, player_name |-> unwrap_or_default(name)]
          ELSE e : e \in result}
    ELSE result \cup {[id |-> id, max_level |-> level,
                       player_name |-> unwrap_or_default(name)]}

(* for (id, level) in map: the ids of one map are distinct *)
RECURSIVE max_row(_, _, _)
max_row(result, levels, name) ==
    IF levels = {} THEN result
    ELSE LET kv == CHOOSE x \in levels : TRUE
         IN  max_row(max_entry(result, kv[1], kv[2], name), levels \ {kv}, name)

(* for row in rows, from the empty map *)
RECURSIVE max_levels(_, _, _)
max_levels(result, rows, i) ==
    IF i > Len(rows) THEN result
    ELSE max_levels(IF rows[i].json.ok
                    THEN max_row(result, rows[i].json.levels, rows[i].name)
                    ELSE result, rows, i + 1)

(* GET /api/hub/playerresearch over the rows of hub::get_research *)
get_max_research(rows) == max_levels({}, rows, 1)

(* GET /api/hub/buildings over the rows of hub::get_buildings *)
get_buildings(rows) == max_levels({}, rows, 1)

LevelIds == {"106", "113"}

LevelMaps ==
    {m \in SUBSET (LevelIds \X {1, 2}) :
        \A x \in m, y \in m : x[1] = y[1] => x = y}

LevelRows ==
    {[name |-> n, json |-> j] :
        n \in {"Ann", "Bob", NONE},
        j \in {[ok |-> FALSE, levels |-> {}]} \cup {[ok |-> TRUE, levels |-> m] : m \in LevelMaps}}

GetMaxResearch ==
    /\ nreq < MaxReads
    /\ nreq' = nreq + 1
    /\ \E rows \in BoundedSeq(LevelRows, MaxRows) :
          last' = [kind |-> "max_research", rows |-> rows, levels |-> get_max_research(rows)]
    /\ UNCHANGED <<db, now, scanned, submitted, inflight, applied>>

GetBuildings ==
    /\ nreq < MaxReads
    /\ nreq' = nreq + 1
    /\ \E rows \in BoundedSeq(LevelRows, MaxRows) :
          last' = [kind |-> "buildings", rows |-> rows, levels |-> get_buildings(rows)]
    /\ UNCHANGED <<db, now, scanned, submitted, inflight, applied>>

NextLevels == GetMaxResearch \/ GetBuildings

SpecLevels == Init /\ [][NextLevels]_vars

(* ------------------------------------------------------------------ *)
(* Distances: POST /api/players/overview                                *)
(* ------------------------------------------------------------------ *)
abs(x) == IF x < 0 THEN 0 - x ELSE x

(* Variant of calculate_distance: the differences are taken as they are *)
calculate_distance_signed(from_galaxy, from_system, from_planet, to_galaxy, to_system, to_planet) ==
    IF from_galaxy # to_galaxy THEN (from_galaxy - to_galaxy) * 20000
    ELSE IF from_system # to_system THEN 2700 + 95 * (from_system - to_system)
    ELSE IF from_planet # to_planet THEN 1000 + 5 * (from_planet - to_planet)
    ELSE 5

calculate_distance(from_galaxy, from_system, from_planet, to_galaxy, to_system, to_planet) ==
    IF from_galaxy # to_galaxy THEN abs(from_galaxy - to_galaxy) * 20000
    ELSE IF from_system # to_system THEN 2700 + 95 * abs(from_system - to_system)
    ELSE IF from_planet # to_planet THEN 1000 + 5 * abs(from_planet - to_planet)
    ELSE 5

(* parts[i].parse().unwrap_or(0) *)
parse_or_zero(s) == IF parse_i64(s).ok THEN parse_i64(s).val ELSE 0

(* The loop body of get_overview for one own coordinate: no entry for a *)
(* text that has not three parts                                        *)
overview_entry(req, own_coord) ==
    LET parts == split(own_coord) IN
    IF Len(parts) # 3 THEN <<>>
    ELSE <<[coordinates |-> own_coord,
            distance |-> calculate_distance(parse_or_zero(parts[1]), parse_or_zero(parts[2]),
                                            parse_or_zero(parts[3]),
                                            req.galaxy, req.system, req.planet)]>>

(* Vec::sort_by_key(|p| p.distance): stable, an entry goes behind the   *)
(* entries of the same distance that were before it                     *)
RECURSIVE sort_by_key(_)
sort_by_key(list) ==
    IF list = <<>> THEN <<>>
    ELSE LET head == sort_by_key(SubSeq(list, 1, Len(list) - 1))
             x    == list[Len(list)]
             k    == Cardinality({i \in 1..Len(head) : head[i].distance <= x.distance})
         IN  SubSeq(head, 1, k) \o <<x>> \o SubSeq(head, k + 1, Len(head))

(* POST /api/players/overview: the planets of the response *)
players_get_overview(req) ==
    sort_by_key(flatten([i \in 1..Len(req.own_planets) |->
                            overview_entry(req, req.own_planets[i])]))

(* Own coordinates: other galaxy, other system, other position, the     *)
(* target itself, two parts only, and a galaxy that is no integer       *)
OwnCoords ==
    {<<"2", ":", "1", ":", "1">>, <<"1", ":", "3", ":", "1">>, <<"1", ":", "1", ":", "4">>,
     <<"1", ":", "1", ":", "1">>, <<"1", ":", "1">>, <<"x", ":", "1", ":", "1">>}

OverviewReqs ==
    {[galaxy |-> g, system |-> sy, planet |-> pl, own_planets |-> own] :
        g \in {1, 3}, sy \in {1, 5}, pl \in {1, 9}, own \in BoundedSeq(OwnCoords, MaxOwn)}

PlayersOverview ==
    /\ nreq < MaxReads
    /\ nreq' = nreq + 1
    /\ \E req \in OverviewReqs :
          last' = [kind |-> "players_overview", req |-> req,
                   planets |-> players_get_overview(req)]
    /\ UNCHANGED <<db, now, scanned, submitted, inflight, applied>>

NextDistance == PlayersOverview

SpecDistance == Init /\ [][NextDistance]_vars

(* ------------------------------------------------------------------ *)
(* Sync freshness: GET /api/hub/statview.  A time is a count of half    *)
(* hours since midnight UTC of day 0.  last_sync_at of a row is          *)
(* [some, parses, dt]: a NULL column has some = FALSE, a text that       *)
(* NaiveDateTime::parse_from_str rejects has parses = FALSE.             *)
(* ------------------------------------------------------------------ *)
hour_of(t) == (t \div 2) % 24
date_of(t) == t \div 48
and_hms(date, hour) == date * 48 + hour * 2

(* Variant of is_synced: a rolling window of six hours *)
is_synced_rolling(last_sync_at, t) ==
    IF ~last_sync_at.some THEN FALSE
    ELSE IF ~last_sync_at.parses THEN FALSE
    ELSE last_sync_at.dt > t - 12

(* get_stat_view: is_synced of one row at time t *)
is_synced(last_sync_at, t) ==
    IF ~last_sync_at.some THEN FALSE
    ELSE IF ~last_sync_at.parses THEN FALSE
    ELSE LET current_hour == hour_of(t)
             window_start_hour == (current_hour \div 6) * 6
             window_start == and_hms(date_of(t), window_start_hour)
         IN  last_sync_at.dt >= window_start

(* The timestamps a row can hold at time t: none, a text in another     *)
(* format, or a time recorded up to t                                   *)
SyncStamps(t) ==
    {[some |-> FALSE, parses |-> FALSE, dt |-> 0], [some |-> TRUE, parses |-> FALSE, dt |-> 0]}
    \cup {[some |-> TRUE, parses |-> TRUE, dt |-> d] : d \in 0..t}

GetStatView ==
    /\ nreq < MaxReads
    /\ nreq' = nreq + 1
    /\ \E t \in 0..MaxHalfHours : \E ts \in SyncStamps(t) :
          /\ now' = t
          /\ last' = [kind |-> "stat_view", stat_type |-> "total", last_sync_at |-> ts,
                      is_synced |-> is_synced(ts, t)]
    /\ UNCHANGED <<db, scanned, submitted, inflight, applied>>

NextStatView == GetStatView

SpecStatView == Init /\ [][NextStatView]_vars

(* ------------------------------------------------------------------ *)
(* Export document (db/queries/bot.rs).  A JSON map is the set of its   *)
(* [key, val] members, a key the text of its characters; a value is      *)
(* null, a number (num) or the slot data of a planet.                    *)
(* ------------------------------------------------------------------ *)
json_null == [null |-> TRUE, num |-> 0, hasmoon |-> FALSE, playerid |-> NULL, name |-> NONE,
              allianceid |-> NULL, alliancename |-> NONE]

json_num(n) == [json_null EXCEPT !.null = FALSE, !.num = n]

(* json!(PlanetSlotData {..}) *)
json_slot(row) ==
    [null |-> FALSE, num |-> 0, hasmoon |-> row.has_moon # 0, playerid |-> row.player_id,
     name |-> row.player_name, allianceid |-> row.alliance_id,
     alliancename |-> row.alliance_name]

(* Map::insert: the member of the key is replaced *)
json_insert(map, key, val) == {e \in map : e.key # key} \cup {[key |-> key, val |-> val]}

json_get(map, key) == (CHOOSE e \in map : e.key = key).val

timepoint_key == <<"t", "i", "m", "e", "p", "o", "i", "n", "t">>

(* get_all_planets_for_export: one row per PLANET row, joined with its  *)
(* player and the player's alliance.  galaxy_views is not defined in the *)
(* sources; the timepoint is taken from p.updated_at, the second         *)
(* argument of the COALESCE.                                             *)
export_row(d, p) ==
    LET pls == {pl \in d.players : pl.id = p.player_id}
        pl  == CHOOSE x \in pls : TRUE
        als == IF pls = {} THEN {} ELSE {a \in d.alliances : a.id = pl.alliance_id}
    IN  [rowid |-> p.rowid, galaxy |-> p.galaxy, system |-> p.system, planet |-> p.planet,
         player_id |-> p.player_id,
         player_name |-> IF pls = {} THEN NONE ELSE pl.name,
         alliance_id |-> IF pls = {} THEN NULL ELSE pl.alliance_id,
         alliance_name |-> IF als = {} THEN "-" ELSE (CHOOSE a \in als : TRUE).name,
         has_moon |-> IF \E m \in d.planets :
                            /\ m.galaxy = p.galaxy /\ m.system = p.system
                            /\ m.planet = p.planet /\ m.type = "MOON"
                      THEN 1 ELSE 0,
         timepoint |-> p.updated_at * 1000]

(* ORDER BY p.galaxy, p.system, p.planet; rows of one triple come in an *)
(* order the query does not determine: tie says which comes first.       *)
export_before(a, b, tie) ==
    \/ a.galaxy < b.galaxy
    \/ a.galaxy = b.galaxy /\ a.system < b.system
    \/ a.galaxy = b.galaxy /\ a.system = b.system /\ a.planet < b.planet
    \/ /\ a.galaxy = b.galaxy /\ a.system = b.system /\ a.planet = b.planet
       /\ IF tie = "low" THEN a.rowid < b.rowid ELSE a.rowid > b.rowid

RECURSIVE export_order(_, _)
export_order(rows, tie) ==
    IF rows = {} THEN <<>>
    ELSE LET first == CHOOSE r \in rows : \A o \in rows \ {r} : export_before(r, o, tie)
         IN  <<first>> \o export_order(rows \ {first}, tie)

get_all_planets_for_export(d, tie) ==
    export_order({export_row(d, p) : p \in {q \in d.planets : q.type = "PLANET"}}, tie)

(* or_insert_with: slots "1" to "15" null, and the row's timepoint *)
new_group(planet) ==
    {[key |-> fmt_int(i), val |-> json_null] : i \in 1..15}
    \cup {[key |-> timepoint_key, val |-> json_num(planet.timepoint)]}

(* build_export_json, the loop body for one planet row *)
export_planet(coords_map, planet) ==
    LET key == <<planet.galaxy, planet.system>>
        present == \E g \in coords_map : g.key = key
        entry == IF present THEN (CHOOSE g \in coords_map : g.key = key).map
                 ELSE new_group(planet)
        timed == IF planet.timepoint > json_get(entry, timepoint_key).num
                 THEN json_insert(entry, timepoint_key, json_num(planet.timepoint))
                 ELSE entry
        slotted == IF planet.player_id # NULL /\ planet.player_name # NONE
                   THEN json_insert(timed, fmt_int(planet.planet), json_slot(planet))
                   ELSE timed
    IN  {g \in coords_map : g.key # key} \cup {[key |-> key, map |-> slotted]}

RECURSIVE export_fold(_, _, _)
export_fold(coords_map, planets, i) ==
    IF i > Len(planets) THEN coords_map
    ELSE export_fold(export_planet(coords_map, planets[i]), planets, i + 1)

(* build_export_json: the coordinates map of the document *)
build_export_json(d, tie) == export_fold({}, get_all_planets_for_export(d, tie), 1)

(* ------------------------------------------------------------------ *)
(* Authentication (api/auth.rs).  db.users holds [id, api_key, role,    *)
(* last_activity_at].  inflight holds the authenticated requests that    *)
(* have not reached their handler yet and the spawned updates of the     *)
(* last activity, each with the number of its request.                   *)
(* ------------------------------------------------------------------ *)
User(id, api_key, role) == [id |-> id, api_key |-> api_key, role |-> role, last_activity_at |-> NULL]

SeedUsers == {User(1, "key-1", "admin"), User(2, "key-2", "admin"), User(3, "key-3", "user")}

ApiKeys == {"key-1", "key-2", "key-3", "key-x", NONE}

InitUsers ==
    /\ db = [EmptyDb EXCEPT !.users = SeedUsers]
    /\ now = 0
    /\ nreq = 0
    /\ last = [kind |-> "none", req |-> <<>>, user |-> NoUser, result |-> "none",
               done |-> 0, unresolved |-> FALSE, again |-> FALSE]
    /\ scanned = [gs \in ScanSystems |-> 0]
    /\ submitted = [k \in ReportKeys |-> NoSubmission]
    /\ inflight = <<>>
    /\ applied = [keys |-> {}, turn |-> 0, switches |-> 0]

(* users::get_by_api_key: the rows of the key, none or one *)
users_get_by_api_key(d, api_key) == {u \in d.users : u.api_key = api_key}

(* users::update_activity: the statement either fails and changes       *)
(* nothing, or sets last_activity_at of the user's row, if there is one  *)
users_update_activity(d, user_id, t, fails) ==
    IF fails THEN Err(d)
    ELSE Ok([d EXCEPT !.users =
            {IF u.id = user_id THEN [u EXCEPT !.last_activity_at = t] ELSE u : u \in @}])

(* GET /api/admin/check *)
check_admin(user) == [result |-> "ok", is_admin |-> user.role = "admin"]

(* The state of the spawned update of request n: "pending", "ok" or     *)
(* "failed"                                                             *)
task_state(procs, n) ==
    (CHOOSE p \in {procs[i] : i \in 1..Len(procs)} : p.kind = "task" /\ p.n = n).state

(* Variant of auth_response: the update is awaited and its error is     *)
(* returned                                                              *)
auth_response_awaited(handled, state) ==
    IF state = "failed" THEN [handled EXCEPT !.result = "database_error"] ELSE handled

(* auth_middleware: Ok(next.run(request).await); the JoinHandle of the   *)
(* spawned update is dropped                                             *)
auth_response(handled, state) == handled

remove_at(seq, i) == SubSeq(seq, 1, i - 1) \o SubSeq(seq, i + 1, Len(seq))

(* auth_middleware up to next.run: no key or an unknown key is answered *)
(* Unauthorized; otherwise the update is spawned and the request goes on *)
Authenticate ==
    /\ nreq < MaxAuthReqs
    /\ nreq' = nreq + 1
    /\ now' = now + 1
    /\ \E api_key \in ApiKeys :
          IF api_key = NONE \/ users_get_by_api_key(db, api_key) = {}
          THEN /\ last' = [kind |-> "response", n |-> nreq + 1, result |-> "unauthorized",
                           is_admin |-> FALSE, task |-> "none"]
               /\ inflight' = inflight
          ELSE \E user \in users_get_by_api_key(db, api_key) :
               /\ inflight' = inflight \o
                     <<[kind |-> "task", n |-> nreq + 1, user |-> user, state |-> "pending"],
                       [kind |-> "request", n |-> nreq + 1, user |-> user, state |-> "handler"]>>
               /\ last' = last
    /\ UNCHANGED <<db, scanned, submitted, applied>>

(* The spawned task runs: let _ = users::update_activity(user_id).await *)
UpdateActivity ==
    \E i \in 1..Len(inflight) : \E fails \in BOOLEAN :
        /\ inflight[i].kind = "task" /\ inflight[i].state = "pending"
        /\ \E r \in {users_update_activity(db, inflight[i].user.id, now, fails)} :
              /\ db' = r.db
              /\ inflight' = [inflight EXCEPT ![i].state = IF r.ok THEN "ok" ELSE "failed"]
        /\ UNCHANGED <<now, nreq, last, scanned, submitted, applied>>

(* next.run(request): the handler runs and the response is returned *)
RunHandler ==
    \E i \in 1..Len(inflight) :
        /\ inflight[i].kind = "request"
        /\ \E resp \in {auth_response(check_admin(inflight[i].user),
                                        task_state(inflight, inflight[i].n))} :
              last' = [kind |-> "response", n |-> inflight[i].n, result |-> resp.result,
                       is_admin |-> resp.is_admin,
                       task |-> task_state(inflight, inflight[i].n)]
        /\ inflight' = remove_at(inflight, i)
        /\ UNCHANGED <<db, now, nreq, scanned, submitted, applied>>

NextAuth == Authenticate \/ UpdateActivity \/ RunHandler

SpecAuth == InitUsers /\ [][NextAuth]_vars

(* ------------------------------------------------------------------ *)
(* Translation lookup (i18n/mod.rs).  A locale document is the set of   *)
(* its leaves [path, type, text]: path the names from the root, type     *)
(* "string" or another JSON type, text the tokens of a string.  A        *)
(* language whose file does not parse has no entry in LOCALES.            *)
(* ------------------------------------------------------------------ *)
SUPPORTED_LANGUAGES == {"en", "de"}
DEFAULT_LANGUAGE == "en"

is_valid_language(lang) == lang \in SUPPORTED_LANGUAGES

(* str::split('.') *)
RECURSIVE split_dot(_)
split_dot(s) ==
    IF \A i \in 1..Len(s) : s[i] # "." THEN <<s>>
    ELSE LET k == CHOOSE i \in 1..Len(s) :
                      s[i] = "." /\ \A j \in 1..(i - 1) : s[j] # "."
         IN  <<SubSeq(s, 1, k - 1)>> \o split_dot(SubSeq(s, k + 1, Len(s)))

(* Value::get(part) from the node at path: the child, if the node is an *)
(* object that has it                                                    *)
value_get(doc, path, part) ==
    \E leaf \in doc :
        /\ Len(leaf.path) > Len(path)
        /\ SubSeq(leaf.path, 1, Len(path) + 1) = path \o <<part>>

(* for part in key.split('.'): the path reached, ok FALSE at a None *)
RECURSIVE navigate(_, _, _)
navigate(doc, parts, i) ==
    IF i > Len(parts) THEN [ok |-> TRUE, path |-> parts]
    ELSE IF value_get(doc, SubSeq(parts, 1, i - 1), parts[i])
         THEN navigate(doc, parts, i + 1)
         ELSE [ok |-> FALSE, path |-> <<>>]

(* String::replace of "{{name}}" by value, for each parameter in turn *)
RECURSIVE replace_params(_, _, _)
replace_params(text, params, i) ==
    IF i > Len(params) THEN text
    ELSE replace_params([k \in 1..Len(text) |->
                            IF text[k] = "{{" \o params[i][1] \o "}}" THEN params[i][2]
                            ELSE text[k]], params, i + 1)

(* Variant of t: the language is looked up as given *)
i18n_t_no_fallback(locales, lang, key, params) ==
    IF lang \notin DOMAIN locales THEN key
    ELSE LET doc == locales[lang]
             nav == navigate(doc, split_dot(key), 1)
             strs == {leaf \in doc : nav.ok /\ leaf.path = nav.path /\ leaf.type = "string"}
         IN  IF strs = {} THEN key
             ELSE replace_params((CHOOSE leaf \in strs : TRUE).text, params, 1)

(* i18n::t(lang, key, params) over the parsed LOCALES *)
i18n_t(locales, lang, key, params) ==
    LET l == IF is_valid_language(lang) THEN lang ELSE DEFAULT_LANGUAGE IN
    IF l \notin DOMAIN locales THEN key
    ELSE LET doc == locales[l]
             nav == navigate(doc, split_dot(key), 1)
             strs == {leaf \in doc : nav.ok /\ leaf.path = nav.path /\ leaf.type = "string"}
         IN  IF strs = {} THEN key
             ELSE replace_params((CHOOSE leaf \in strs : TRUE).text, params, 1)

Leaf(path, type, text) == [path |-> path, type |-> type, text |-> text]

(* Two documents: "a" a string, "b" an object with a string that has a  *)
(* placeholder and a number; the second lacks "b.a"                      *)
LocaleDocs ==
    {{Leaf(<<(<<"a">>)>>, "string", <<"Pong!">>),
      Leaf(<<(<<"b">>), (<<"a">>)>>, "string", <<"User ", "{{n}}", " created">>),
      Leaf(<<(<<"b">>), (<<"b">>)>>, "number", <<>>)},
     {Leaf(<<(<<"a">>)>>, "string", <<"Peng!">>),
      Leaf(<<(<<"b">>), (<<"b">>)>>, "string", <<"Hallo">>)}}

(* LOCALES: en and de parsed, or one of the two missing *)
LocaleMaps ==
    {[l \in ls |-> IF l = "en" THEN e ELSE d] :
        ls \in {{"en", "de"}, {"en"}, {"de"}}, e \in LocaleDocs, d \in LocaleDocs}

Langs == {"en", "de", "xx", ""}

Keys == BoundedSeq({"a", "b", "."}, MaxKeyLen)

ParamLists == {<<>>, <<(<<"n", "Ann">>)>>}

Translate ==
    /\ nreq < MaxReads
    /\ nreq' = nreq + 1
    /\ \E locales \in LocaleMaps : \E lang \in Langs : \E key \in Keys :
       \E params \in ParamLists :
          last' = [kind |-> "t", locales |-> locales, lang |-> lang, key |-> key,
                   params |-> params, text |-> i18n_t(locales, lang, key, params)]
    /\ UNCHANGED <<db, now, scanned, submitted, inflight, applied>>

NextTranslate == Translate

SpecTranslate == Init /\ [][NextTranslate]_vars

(* ------------------------------------------------------------------ *)
(* Universe configuration (api/handlers/admin.rs).  db.config holds the *)
(* [key, value] rows, the value as the text that is stored.              *)
(* ------------------------------------------------------------------ *)
require_admin(user) == user.role = "admin"

(* PUT /api/admin/config: the result and the statements issued before   *)
(* it; each value is validated when its turn comes                       *)
update_config(user, req) ==
    IF ~require_admin(user) THEN [result |-> "forbidden", stmts |-> <<>>]
    ELSE IF req.galaxies # NULL /\ (req.galaxies < 1 \/ req.galaxies > 20)
    THEN [result |-> "bad_request", stmts |-> <<>>]
    ELSE LET galaxies == IF req.galaxies # NULL
                         THEN <<Stmt("config::set_config",
                                     <<"galaxies", fmt_int(req.galaxies)>>)>>
                         ELSE <<>>
         IN  IF req.systems # NULL /\ (req.systems < 1 \/ req.systems > 999)
             THEN [result |-> "bad_request", stmts |-> galaxies]
             ELSE [result |-> "ok",
                   stmts |-> galaxies
                      \o (IF req.systems # NULL
                          THEN <<Stmt("config::set_config",
                                      <<"systems", fmt_int(req.systems)>>)>>
                          ELSE <<>>)
                      \o (IF req.galaxy_wrapped # NONE
                          THEN <<Stmt("config::set_config",
                                      <<"galaxy_wrapped", req.galaxy_wrapped>>)>>
                          ELSE <<>>)]

(* UpdateConfigRequest: each field absent, at a bound, or beyond it *)
ConfigReqs ==
    {[galaxies |-> g, systems |-> sy, galaxy_wrapped |-> w] :
        g \in {NULL, 0, 1, 20, 21}, sy \in {NULL, 0, 1, 999, 1000}, w \in {NONE, "true", "false"}}

UpdateConfig ==
    \E user \in SeedUsers : \E req \in ConfigReqs :
        /\ nreq < MaxAdminReqs
        /\ nreq' = nreq + 1
        /\ now' = now + 1
        /\ \E h \in {update_config(user, req)} : \E r \in {run(db, h.stmts, now + 1)} :
              /\ db' = r.db
              /\ last' = [kind |-> "config", req |-> req, user |-> user,
                          result |-> IF r.ok THEN h.result ELSE "database_error"]
        /\ UNCHANGED <<scanned, submitted, inflight, applied>>

NextConfig == UpdateConfig

SpecConfig == InitUsers /\ [][NextConfig]_vars

(* ------------------------------------------------------------------ *)
(* User administration (api/handlers/admin.rs).  A request carries the  *)
(* user row that auth_middleware read for its key; the handler runs     *)
(* later, and its statements are awaited one at a time, so the          *)
(* statements of requests in flight together interleave.                *)
(* ------------------------------------------------------------------ *)
(* users::get_all *)
users_get_all(d) == d.users

(* users::delete: rows_affected > 0 *)
users_delete(d, user_id) ==
    [db |-> [d EXCEPT !.users = {u \in @ : u.id # user_id}],
     deleted |-> \E u \in d.users : u.id = user_id]

(* users::update_role: rows_affected > 0 *)
users_update_role(d, user_id, role) ==
    [db |-> [d EXCEPT !.users = {IF u.id = user_id THEN [u EXCEPT !.role = role] ELSE u : u \in @}],
     updated |-> \E u \in d.users : u.id = user_id]

(* DELETE /api/admin/users/{id} *)
delete_user(d, user_id, user) ==
    IF ~require_admin(user) THEN [db |-> d, result |-> "forbidden"]
    ELSE IF user_id = user.id THEN [db |-> d, result |-> "bad_request"]
    ELSE LET r == users_delete(d, user_id)
         IN  [db |-> r.db, result |-> IF r.deleted THEN "ok" ELSE "not_found"]

(* update_user_role up to its write: "forbidden", "bad_request" when the *)
(* caller demotes themself and the rows read hold at most one admin,      *)
(* "go on" otherwise                                                       *)
update_user_role_guard(d, user_id, user, role) ==
    IF ~require_admin(user) THEN "forbidden"
    ELSE IF user_id = user.id /\ role # "admin"
            /\ Cardinality({u \in users_get_all(d) : u.role = "admin"}) <= 1
    THEN "bad_request"
    ELSE "go on"

(* update_user_role from the role match on *)
update_user_role_write(d, user_id, role) ==
    IF role \notin {"admin", "user"} THEN [db |-> d, result |-> "bad_request"]
    ELSE LET r == users_update_role(d, user_id, role)
         IN  [db |-> r.db, result |-> IF r.updated THEN "ok" ELSE "not_found"]

UserIds == {1, 2, 3}

RoleNames == {"admin", "user", "owner"}

(* auth_middleware: the key's user row is attached to the request *)
AdminArrive ==
    /\ nreq < MaxAdminReqs
    /\ Len(inflight) < MaxInflight
    /\ nreq' = nreq + 1
    /\ \E api_key \in ApiKeys \ {NONE} : \E user \in users_get_by_api_key(db, api_key) :
       \E user_id \in UserIds : \E role \in RoleNames \cup {NONE} :
          inflight' = Append(inflight,
              [kind |-> IF role = NONE THEN "delete" ELSE "role", user |-> user,
               user_id |-> user_id, role |-> role, pc |-> "start"])
    /\ UNCHANGED <<db, now, last, scanned, submitted, applied>>

DeleteUser ==
    /\ \E i \in 1..Len(inflight) :
          /\ inflight[i].kind = "delete"
          /\ \E h \in {delete_user(db, inflight[i].user_id, inflight[i].user)} :
                /\ db' = h.db
                /\ last' = [kind |-> "delete", req |-> inflight[i], result |-> h.result]
          /\ inflight' = remove_at(inflight, i)
    /\ UNCHANGED <<now, nreq, scanned, submitted, applied>>

UpdateRoleGuard ==
    /\ \E i \in 1..Len(inflight) :
          /\ inflight[i].kind = "role"
          /\ inflight[i].pc = "start"
          /\ \E g \in {update_user_role_guard(db, inflight[i].user_id, inflight[i].user, inflight[i].role)} :
                IF g = "go on"
                THEN /\ inflight' = [inflight EXCEPT ![i].pc = "write"]
                     /\ last' = last
                ELSE /\ inflight' = remove_at(inflight, i)
                     /\ last' = [kind |-> "role", req |-> inflight[i], result |-> g]
    /\ UNCHANGED <<db, now, nreq, scanned, submitted, applied>>

UpdateRoleWrite ==
    /\ \E i \in 1..Len(inflight) :
          /\ inflight[i].kind = "role"
          /\ inflight[i].pc = "write"
          /\ \E h \in {update_user_role_write(db, inflight[i].user_id, inflight[i].role)} :
                /\ db' = h.db
                /\ last' = [kind |-> "role", req |-> inflight[i], result |-> h.result]
          /\ inflight' = remove_at(inflight, i)
    /\ UNCHANGED <<now, nreq, scanned, submitted, applied>>

NextAdmin ==
    \/ AdminArrive
    \/ DeleteUser
    \/ UpdateRoleGuard
    \/ UpdateRoleWrite

SpecAdmin == InitUsers /\ [][NextAdmin]_vars

(* ------------------------------------------------------------------ *)
(* Properties of the ingestion handlers                                 *)
(* ------------------------------------------------------------------ *)
Ingested == last.kind \in {"scan", "empire", "planet"}

NoOrphanPlanet(d) == \A r \in d.planets : player_exists(d, r.player_id)

(* C1: every planet/moon write of a galaxy scan, an empire sync or a     *)
(* single-planet create is issued when the player it references already  *)
(* has a row, and no stored planet/moon row references a missing player. *)
C1_PlayerResolvedBeforeWrite ==
    /\ Ingested => ~last.unresolved
    /\ NoOrphanPlanet(db)

(* The store without the update timestamps *)
strip(d) == [d EXCEPT !.planets = {[r EXCEPT !.updated_at = 0] : r \in @}]

NoDuplicateKeys(d) ==
    /\ \A p, q \in d.players : p.id = q.id => p = q
    /\ \A a, b \in d.alliances : a.id = b.id => a = b
    /\ \A r, q \in d.planets :
          (r.coordinates = q.coordinates /\ r.type = q.type) => r = q
    /\ \A r, q \in d.reports :
          (r.kind = q.kind /\ r.external_id = q.external_id) => r = q

(* C2: a galaxy scan applied a second time in a row leaves the players,  *)
(* alliances and planet/moon rows (update timestamps aside) as the first *)
(* application left them, and no identity key is stored twice.           *)
C2_ScanIdempotent ==
    [][(last'.kind = "scan" /\ last'.again)
          => (strip(db') = strip(db) /\ NoDuplicateKeys(db'))]_vars

(* C3: an empire snapshot applied a second time in a row by the same     *)
(* caller leaves the player row and the planet rows (update timestamps   *)
(* aside) as the first application left them, with no duplicate row.     *)
C3_EmpireIdempotent ==
    [][(last'.kind = "empire" /\ last'.again)
          => (strip(db') = strip(db) /\ NoDuplicateKeys(db'))]_vars

(* C3 witness: a snapshot that wrote a planet row has been applied twice *)
C3_Witness ==
    /\ last.kind = "empire" /\ last.again /\ last.result = "ok"
    /\ \E r \in db.planets : r.data # NONE /\ r.updated_at = now

(* C5: no coordinate triple holds two rows of one kind *)
C5_OnePerTripleAndKind ==
    \A r, q \in db.planets :
        (r.galaxy = q.galaxy /\ r.system = q.system /\ r.planet = q.planet
            /\ r.type = q.type) => r = q

(* ------------------------------------------------------------------ *)
(* Properties of the galaxy scan                                        *)
(* ------------------------------------------------------------------ *)
Scanned == last.kind = "scan" /\ last.result = "ok"

(* The entry stores rows: it names a player *)
has_player(p) == p.player_id # NULL /\ p.player_id > 0

scan_coords(req, position) == fmt_coords(req.galaxy, req.system, position)

rows_at(d, coordinates, planet_type) ==
    {r \in d.planets : r.coordinates = coordinates /\ r.type = planet_type}

listed_destroyed(req, position, planet_type) ==
    \E i \in 1..Len(req.destroyed) :
        req.destroyed[i].position = position /\ req.destroyed[i].type = planet_type

(* The last entry of the scan that reports the position occupied *)
last_report(req, i) ==
    /\ has_player(req.planets[i])
    /\ \A j \in (i + 1)..Len(req.planets) :
          ~(has_player(req.planets[j])
              /\ req.planets[j].position = req.planets[i].position)

(* C7: after a galaxy scan, the planet row of every position the scan    *)
(* reports occupied carries the name and owner of the scan and is not    *)
(* in status deleted.  (Stated for positions the same scan does not also *)
(* list as destroyed.)                                                   *)
C7_OccupiedRowOverwritten ==
    Scanned =>
        \A i \in 1..Len(last.req.planets) :
            (last_report(last.req, i)
                /\ ~listed_destroyed(last.req, last.req.planets[i].position, "PLANET"))
            => \E r \in rows_at(db, scan_coords(last.req, last.req.planets[i].position),
                                "PLANET") :
                  /\ r.name = last.req.planets[i].planet_name
                  /\ r.player_id = last.req.planets[i].player_id
                  /\ r.status # "deleted"

(* The external ids a scan supplies for a (coordinates, type) key, in    *)
(* the order of its entries                                              *)
RECURSIVE supplied_ids(_, _, _, _)
supplied_ids(req, i, coordinates, planet_type) ==
    IF i > Len(req.planets) THEN <<>>
    ELSE LET p  == req.planets[i]
             id == IF ~has_player(p) \/ scan_coords(req, p.position) # coordinates
                   THEN NULL
                   ELSE IF planet_type = "PLANET" THEN p.planet_id
                   ELSE IF p.has_moon THEN p.moon_id ELSE NULL
         IN  (IF id # NULL THEN <<id>> ELSE <<>>)
             \o supplied_ids(req, i + 1, coordinates, planet_type)

(* C8: a galaxy scan leaves the external planet id of a stored           *)
(* (coordinates, kind) row as it was unless the scan supplies an id for  *)
(* that key, and then the stored id is the one supplied last.            *)
C8_ExternalIdPreserved ==
    [][(last'.kind = "scan") =>
        \A r \in db.planets :
            \E q \in db'.planets :
                /\ q.rowid = r.rowid
                /\ LET ids == supplied_ids(last'.req, 1, r.coordinates, r.type)
                   IN  q.planet_id = IF ids = <<>> THEN r.planet_id ELSE ids[Len(ids)]]_vars

(* C8 witness: the scan wrote a planet key without an external id, and  *)
(* the row still holds the id stored before.                            *)
C8_Witness ==
    /\ Scanned
    /\ \E i \in 1..Len(last.req.planets) :
          /\ last_report(last.req, i)
          /\ last.req.planets[i].planet_id = NULL
          /\ supplied_ids(last.req, 1,
                          scan_coords(last.req, last.req.planets[i].position),
                          "PLANET") = <<>>
          /\ \E r \in rows_at(db, scan_coords(last.req, last.req.planets[i].position),
                              "PLANET") :
                r.planet_id # NULL /\ r.player_id = last.req.planets[i].player_id

(* The stored row is named by an entry of the destroyed list *)
matches_destroyed(req, r) ==
    \E i \in 1..Len(req.destroyed) :
        /\ r.coordinates = scan_coords(req, req.destroyed[i].position)
        /\ r.type = req.destroyed[i].type

(* The row lies in another system, or at a position (not the marker's)  *)
(* that the scan lists neither as destroyed nor as occupied.            *)
not_listed(req, r) ==
    \/ r.galaxy # req.galaxy
    \/ r.system # req.system
    \/ /\ r.planet # 0
       /\ \A i \in 1..Len(req.destroyed) : req.destroyed[i].position # r.planet
       /\ \A i \in 1..Len(req.planets) : req.planets[i].position # r.planet

markers(d, gs) == rows_at(d, fmt_coords(gs[1], gs[2], 0), "PLANET")

(* C10: every system that has been scanned has one marker row at         *)
(* position 0, owned by player 0, whose update timestamp is the second   *)
(* of the latest scan of the system; after a scan the marker is named    *)
(* EMPTY if the scan lists no position at all and SCANNED otherwise.     *)
C10_MarkerFresh ==
    /\ \A gs \in ScanSystems :
          scanned[gs] > 0 =>
              /\ Cardinality(markers(db, gs)) = 1
              /\ \A m \in markers(db, gs) :
                    /\ m.player_id = 0 /\ m.planet = 0
                    /\ m.updated_at = scanned[gs]
    /\ last.kind = "scan" =>
          \A m \in markers(db, <<last.req.galaxy, last.req.system>>) :
              /\ m.updated_at = now
              /\ m.name = IF Len(last.req.planets) = 0 /\ Len(last.req.destroyed) = 0
                          THEN "EMPTY" ELSE "SCANNED"

(* C10 witness: a system scanned again, after a scan of another system, *)
(* with nothing found.                                                   *)
C10_Witness ==
    /\ last.kind = "scan" /\ last.req.planets = <<>> /\ last.req.destroyed = <<>>
    /\ \E gs \in ScanSystems :
          /\ gs # <<last.req.galaxy, last.req.system>>
          /\ scanned[gs] > 0 /\ scanned[gs] < now
    /\ \E m \in markers(db, <<last.req.galaxy, last.req.system>>) :
          m.name = "EMPTY" /\ m.updated_at = now /\ now = MaxReqs

(* ------------------------------------------------------------------ *)
(* Properties of the report upserts                                     *)
(* ------------------------------------------------------------------ *)
reports_of(d, kind, external_id) ==
    {r \in d.reports : r.kind = kind /\ r.external_id = external_id}

parses_to(coordinates, galaxy, system, planet) ==
    LET parts == split(coordinates) IN
    /\ Len(parts) = 3
    /\ parse_i64(parts[1]) = [ok |-> TRUE, val |-> galaxy]
    /\ parse_i64(parts[2]) = [ok |-> TRUE, val |-> system]
    /\ parse_i64(parts[3]) = [ok |-> TRUE, val |-> planet]

(* The stored payload is the one of the request *)
stores(pl, kind, req) ==
    /\ pl.report_time = req.report_time
    /\ kind = "hostile" =>
          pl.coordinates = <<req.attacker_coordinates, req.target_coordinates>>
    /\ kind # "hostile" => pl.body = req.body
    /\ kind \in {"spy", "battle", "recycle"} =>
          parses_to(pl.coordinates, req.galaxy, req.system, req.planet)
    /\ kind \in {"spy", "battle"} => pl.type = req.type

(* C4: for each report kind and external id, no report is stored before  *)
(* the first upsert with that id, and afterwards exactly one, whose      *)
(* payload is the one of the latest upsert with that id.                 *)
C4_OneReportPerExternalId ==
    \A k \in ReportKeys :
        IF submitted[k].set
        THEN /\ Cardinality(reports_of(db, k[1], k[2])) = 1
             /\ \A r \in reports_of(db, k[1], k[2]) : stores(r.payload, k[1], submitted[k].req)
        ELSE reports_of(db, k[1], k[2]) = {}

(* C4 witness: three upserts with one external id of one kind, the last *)
(* differing from the one before it, and one stored report.             *)
C4_Witness ==
    /\ last.kind \in ReportKinds /\ nreq = MaxReqs /\ ~last.again
    /\ Cardinality(db.reports) = 1

(* ------------------------------------------------------------------ *)
(* Properties of concurrent requests                                    *)
(* ------------------------------------------------------------------ *)
Quiescent ==
    /\ inflight # <<>>
    /\ \A i \in 1..Len(inflight) : inflight[i].pc > Len(inflight[i].stmts)

(* The stored row of the key holds what the conflict clause of the       *)
(* statement overwrites                                                  *)
overwritten_held(d, w) ==
    CASE w.class = "player" -> player_exists(d, w.id[2])
      [] w.class = "alliance" ->
            \E a \in d.alliances : a.id = w.id[2] /\ a.tag = w.vals.tag
      [] w.class = "link" ->
            \E p \in d.players : p.id = w.id[2] /\ p.alliance_id = w.vals.alliance_id
      [] w.class = "research" ->
            \E p \in d.players : p.id = w.id[2] /\ p.research = w.vals.research
      [] w.class = "planet" ->
            \E r \in rows_at(d, w.id[2], w.id[3]) :
                r.name = w.vals.name /\ r.player_id = w.vals.player_id
      [] w.class = "report" ->
            \E r \in reports_of(d, w.id[2], w.id[3]) :
                /\ parses_to(r.payload.coordinates, w.vals.galaxy, w.vals.system,
                             w.vals.planet)
                /\ r.payload.type = w.vals.type /\ r.payload.body = w.vals.body
                /\ r.payload.reported_by = w.vals.reported_by
                /\ r.payload.report_time = w.vals.report_time

(* The stored row of the key holds every value of the write *)
all_held(d, w) ==
    /\ overwritten_held(d, w)
    /\ w.class = "player" =>
          \E p \in d.players : p.id = w.id[2] /\ p.name = w.vals.name
    /\ w.class = "planet" =>
          \E r \in rows_at(d, w.id[2], w.id[3]) : r.planet_id = w.vals.planet_id

names_alliance(p) == p.alliance_id # NULL /\ p.alliance_tag # NONE

(* The alliance of the last entry of the scan that names player_id with *)
(* an alliance                                                          *)
linked_alliance(req, player_id) ==
    LET js == {j \in 1..Len(req.planets) :
                  /\ has_player(req.planets[j]) /\ names_alliance(req.planets[j])
                  /\ req.planets[j].player_id = player_id}
        k  == CHOOSE j \in js : \A i \in js : i <= j
    IN  req.planets[k].alliance_id

(* C11: every galaxy scan succeeds, and for each of its entries that     *)
(* names a player together with an alliance (id and tag), in whatever    *)
(* order the entries come, the player row, the alliance row and the      *)
(* planet row exist afterwards and the player is linked to the alliance. *)
C11_PlayerAllianceLinked ==
    [][(last'.kind = "scan") =>
        /\ last'.result = "ok"
        /\ \A i \in 1..Len(last'.req.planets) :
              LET p == last'.req.planets[i] IN
              (has_player(p) /\ names_alliance(p)) =>
                  /\ \E pl \in db'.players :
                        /\ pl.id = p.player_id
                        /\ pl.alliance_id = linked_alliance(last'.req, p.player_id)
                  /\ alliance_exists(db', p.alliance_id)
                  /\ rows_at(db', scan_coords(last'.req, p.position), "PLANET") # {}]_vars

(* C11 witness: the first request is a scan with two entries, each       *)
(* naming a player and an alliance no row existed for, and both players  *)
(* are linked.                                                           *)
C11_Witness ==
    /\ Scanned /\ nreq = 1 /\ Len(last.req.planets) = 2
    /\ \A i \in 1..2 : has_player(last.req.planets[i]) /\ names_alliance(last.req.planets[i])
    /\ last.req.planets[1].player_id # last.req.planets[2].player_id
    /\ \A i \in 1..2 : \E pl \in db.players :
          pl.id = last.req.planets[i].player_id
              /\ pl.alliance_id = last.req.planets[i].alliance_id

(* ------------------------------------------------------------------ *)
(* Properties of the entity resolver                                    *)
(* ------------------------------------------------------------------ *)
players_of(d, id) == {p \in d.players : p.id = id}
alliances_of(d, id) == {a \in d.alliances : a.id = id}

(* C12: ensure_player on a store that holds the player id changes        *)
(* nothing; on a store that does not, it adds exactly one player row,    *)
(* with that id and name, and changes nothing else.                      *)
C12_EnsurePlayerNonDestructive ==
    [][(last'.kind = "ensure_player") =>
        /\ last'.result = "ok"
        /\ IF players_of(db, last'.req.id) # {}
           THEN db' = db
           ELSE /\ db.players \subseteq db'.players
                /\ Cardinality(db'.players) = Cardinality(db.players) + 1
                /\ \A p \in players_of(db', last'.req.id) : p.name = last'.req.name
                /\ Cardinality(players_of(db', last'.req.id)) = 1
                /\ db'.alliances = db.alliances /\ db'.planets = db.planets
                /\ db'.reports = db.reports]_vars

(* C12 witness: ensure_player was called with another name for a player *)
(* that was stored and linked to an alliance, and the row kept both.    *)
C12_Witness ==
    /\ last.kind = "ensure_player"
    /\ \E p \in players_of(db, last.req.id) :
          p.name # last.req.name /\ p.alliance_id # NULL

(* C13: ensure_alliance inserts the alliance with name = tag when it is  *)
(* absent; when it is stored, the tag becomes the new tag, and the name  *)
(* becomes the new tag if the stored name was still the stored tag (the  *)
(* placeholder) and stays as it was otherwise.                           *)
C13_EnsureAllianceTagAndName ==
    [][(last'.kind = "ensure_alliance") =>
        /\ Cardinality(alliances_of(db', last'.req.id)) = 1
        /\ \A b \in alliances_of(db', last'.req.id) :
              /\ b.tag = last'.req.tag
              /\ IF alliances_of(db, last'.req.id) = {}
                 THEN b.name = last'.req.tag
                 ELSE \A a \in alliances_of(db, last'.req.id) :
                         b.name = IF a.name = a.tag THEN last'.req.tag ELSE a.name]_vars

(* C14: link_player_alliance returns success; when the alliance row      *)
(* exists the player (if stored) gets that alliance and nothing else     *)
(* changes; when it does not exist the store is unchanged.               *)
C14_LinkGuarded ==
    [][(last'.kind = "link_player_alliance") =>
        /\ last'.result = "ok"
        /\ IF alliances_of(db, last'.req.alliance_id) = {}
           THEN db' = db
           ELSE /\ Cardinality(db'.players) = Cardinality(db.players)
                /\ \A p \in db.players :
                      \E q \in db'.players :
                          /\ q.id = p.id /\ q.name = p.name /\ q.research = p.research
                          /\ q.alliance_id = IF p.id = last'.req.player_id
                                             THEN last'.req.alliance_id
                                             ELSE p.alliance_id
                /\ db'.alliances = db.alliances /\ db'.planets = db.planets
                /\ db'.reports = db.reports]_vars

(* C14 witness: a stored player linked to an alliance was to be linked  *)
(* to an alliance that has no row, and kept the link it had.            *)
C14_Witness ==
    /\ last.kind = "link_player_alliance" /\ last.result = "ok"
    /\ alliances_of(db, last.req.alliance_id) = {}
    /\ \E p \in players_of(db, last.req.player_id) :
          p.alliance_id # NULL /\ p.alliance_id # last.req.alliance_id

(* ------------------------------------------------------------------ *)
(* Properties of the failure policy                                     *)
(* ------------------------------------------------------------------ *)
(* The text is galaxy:system:position, three integers *)
well_formed(coordinates) ==
    LET parts == split(coordinates) IN
    /\ Len(parts) = 3
    /\ \A i \in 1..3 : parse_i64(parts[i]).ok

(* C15: an empire sync that is not rejected succeeds; for an entry with  *)
(* malformed coordinates no planet row is stored, and for every other    *)
(* entry the planet row of its coordinates is written by the request.    *)
C15_MalformedEntrySkipped ==
    (last.kind = "empire" /\ last.result # "bad_request") =>
        /\ last.result = "ok"
        /\ \A i \in 1..Len(last.req.planets) :
              LET e == last.req.planets[i] IN
              IF well_formed(e.coordinates)
              THEN \E r \in rows_at(db, e.coordinates, "PLANET") : r.updated_at = now
              ELSE rows_at(db, e.coordinates, "PLANET") = {}

(* The statements the handler issues for the request recorded in l *)
stmts_of(l) ==
    IF l.kind = "scan" THEN create_planets_batch(l.req).stmts
    ELSE sync_empire(l.user, l.req).stmts

(* C16: when the store fails on the k-th statement of a galaxy scan or   *)
(* an empire sync, the request ends in a database error, the store is    *)
(* the one statements 1..k-1 leave, and no statement after the k-th has  *)
(* run.                                                                  *)
C16_FailureKeepsPrefix ==
    [][(last'.kind \in {"scan", "empire"} /\ last'.fault > 0) =>
        /\ last'.result = "database_error"
        /\ last'.done = last'.fault - 1
        /\ db' = run(db, SubSeq(stmts_of(last'), 1, last'.fault - 1), now').db]_vars

(* C16 witness: the store failed on the moon write of a scan entry; the *)
(* planet row written just before is stored, the moon row is not.       *)
C16_Witness ==
    /\ last.kind = "scan" /\ last.result = "database_error"
    /\ last.fault = Len(stmts_of(last)) /\ Len(last.req.planets) = 1
    /\ last.req.planets[1].has_moon
    /\ \E r \in rows_at(db, scan_coords(last.req, last.req.planets[1].position), "PLANET") :
          r.updated_at = now
    /\ rows_at(db, scan_coords(last.req, last.req.planets[1].position), "MOON") = {}

(* ------------------------------------------------------------------ *)
(* Properties of the message deduplication                              *)
(* ------------------------------------------------------------------ *)
recorded(d) == {m.external_id : m \in d.messages}

(* C17: check_messages returns the ids of the batch that were not        *)
(* recorded before the call, each of them once, and afterwards every id  *)
(* of the batch is recorded.                                             *)
C17_NewIdsOnce ==
    [][(last'.kind = "messages") =>
        /\ Range(last'.new_ids) = Range(last'.req.message_ids) \ recorded(db)
        /\ \A i, j \in 1..Len(last'.new_ids) :
              last'.new_ids[i] = last'.new_ids[j] => i = j
        /\ Range(last'.req.message_ids) \subseteq recorded(db')]_vars

(* ------------------------------------------------------------------ *)
(* Properties of the score history                                      *)
(* ------------------------------------------------------------------ *)
Windows == {6, 12, 18, 24}

delta_of(row, w) ==
    CASE w = 6 -> row.diff06 [] w = 12 -> row.diff12
      [] w = 18 -> row.diff18 [] w = 24 -> row.diff24

snapshots_before(d, player_id, t) ==
    {r \in d.player_scores : r.player_id = player_id /\ r.recorded_at <= t}

(* C18: in every overview, for each player row and each window w of 6,  *)
(* 12, 18 and 24 hours, the delta is absent if the player has no         *)
(* snapshot recorded at or before now - w, and is otherwise the player's *)
(* current total minus the total of a latest snapshot among those        *)
(* recorded at or before now - w.                                        *)
C18_DeltaFromSnapshotBeforeWindow ==
    [][(last'.kind = "overview" /\ UNCHANGED <<db, now>>) =>
        \A row \in last'.planets : \A w \in Windows :
            LET olds == snapshots_before(db, row.player_id, now - w) IN
            IF olds = {} THEN ~delta_of(row, w).some
            ELSE /\ delta_of(row, w).some
                 /\ \E s \in olds :
                       /\ \A o \in olds : o.recorded_at <= s.recorded_at
                       /\ \E c \in col_of(db, row.player_id, "score_total") :
                             delta_of(row, w).val = c.val - s.score_total]_vars

(* C18 witness: an overview of a player with a snapshot older than 24   *)
(* hours and a newer one between 6 and 12 hours old with another total:  *)
(* the 24-hour delta is 50 from the older, the 6-hour delta 0 from the   *)
(* newer.                                                                *)
C18_Witness ==
    /\ last.kind = "overview"
    /\ \E row \in last.planets :
          /\ row.diff24.some /\ row.diff24.val = 50
          /\ row.diff12.some /\ row.diff12.val = 50
          /\ row.diff06.some /\ row.diff06.val = 0

(* C19: no step changes or removes a stored snapshot; a statistics sync  *)
(* of stat_type total adds one snapshot for each entry of its list, with *)
(* the entry's player and score and the time of the sync, and a sync of  *)
(* any other stat_type adds none; no other operation adds one.           *)
C19_HistoryAppendOnly ==
    [][/\ db.player_scores \subseteq db'.player_scores
       /\ LET added == db'.player_scores \ db.player_scores IN
          IF last'.kind = "stats" /\ nreq' # nreq /\ last'.req.stat_type = "total"
          THEN /\ Cardinality(added) = Len(last'.req.players)
               /\ \A i \in 1..Len(last'.req.players) :
                     \E r \in added :
                         /\ r.player_id = last'.req.players[i].player_id
                         /\ r.score_total = last'.req.players[i].score
                         /\ r.recorded_at = now'
          ELSE added = {}]_vars

(* C19 witness: a sync of stat_type total with two entries was followed *)
(* by a sync of another stat_type, and two snapshots are stored.        *)
C19_Witness ==
    /\ last.kind = "stats" /\ last.req.stat_type # "total" /\ last.req.players # <<>>
    /\ Cardinality(db.player_scores) = 2
    /\ \A r \in db.player_scores : r.recorded_at < now

(* ------------------------------------------------------------------ *)
(* Properties of the activity statistics                                *)
(* ------------------------------------------------------------------ *)
ActivityKinds == {"expedition", "battle", "recycle"}

result_of(entry, kind) ==
    CASE kind = "expedition" -> entry.expos
      [] kind = "battle" -> entry.raids
      [] kind = "recycle" -> entry.recycling

reports_by(d, kind, player_id) ==
    {r \in d.reports : r.kind = kind /\ r.payload.reported_by = player_id}

both_tallies(a, kind, player_id) ==
    /\ a.count = Cardinality(reports_by(db, kind, player_id))
    /\ a.count_24h = Cardinality({r \in reports_by(db, kind, player_id) :
                                     r.created_at > now - 24})
    /\ a.points = idiv(a.metal + a.crystal + a.deuterium, 1000)
    /\ (kind = "recycle" => a.deuterium = 0)

(* C20: in every statistics response, each result (expeditions, raids,  *)
(* recycling) of a reporter, in the caller's own statistics and in the   *)
(* 24-hour statistics of the alliance alike, carries as count the number *)
(* of all reports of that reporter and as 24-hour count the number of    *)
(* those created within the last 24 hours, and its points are the sum of *)
(* its metal, crystal and deuterium divided by 1000 in integer division  *)
(* (deuterium being 0 for recycling).                                    *)
C20_LifetimeAndDayTallies ==
    [][(last'.kind = "hubstats" /\ last'.result = "ok" /\ UNCHANGED <<db, now>>) =>
        \A kind \in ActivityKinds :
            /\ both_tallies(result_of(last'.stats.own_stats, kind), kind,
                            last'.user.player_id)
            /\ \A entry \in last'.stats.alliance_stats :
                   both_tallies(result_of(entry, kind), kind, entry.id)]_vars

(* ------------------------------------------------------------------ *)
(* Properties of the leaderboards                                       *)
(* ------------------------------------------------------------------ *)
level_at(rows, i, id) ==
    IF rows[i].json.ok /\ \E kv \in rows[i].json.levels : kv[1] = id
    THEN (CHOOSE kv \in rows[i].json.levels : kv[1] = id)[2]
    ELSE 0

has_level(rows, i, id) ==
    rows[i].json.ok /\ \E kv \in rows[i].json.levels : kv[1] = id

(* C21: a leaderboard has one entry for each id occurring in a decoded  *)
(* map of its rows and none for another id; the entry's max_level is the *)
(* greatest level of the id over all rows, and its holder is the name of *)
(* the first row, in row order, that has this level for the id.          *)
C21_MaxLevelFirstHolder ==
    last.kind \in {"max_research", "buildings"} =>
        LET rows == last.rows IN
        /\ \A e \in last.levels : \A f \in last.levels : e.id = f.id => e = f
        /\ \A e \in last.levels : \E i \in 1..Len(rows) : has_level(rows, i, e.id)
        /\ \A id \in LevelIds :
              (\E i \in 1..Len(rows) : has_level(rows, i, id)) =>
                 \E e \in last.levels : \E i \in 1..Len(rows) :
                    /\ e.id = id /\ has_level(rows, i, id)
                    /\ e.max_level = level_at(rows, i, id)
                    /\ e.player_name = unwrap_or_default(rows[i].name)
                    /\ \A j \in 1..Len(rows) :
                          has_level(rows, j, id) =>
                             /\ level_at(rows, j, id) <= e.max_level
                             /\ (j < i => level_at(rows, j, id) < e.max_level)

(* C21 witness: three rows of three names hold id 106 at levels 1, 2    *)
(* and 2; the holder of level 2 is the second row.                       *)
C21_Witness ==
    /\ last.kind = "max_research" /\ Len(last.rows) = 3
    /\ last.rows[1].name = "Ann" /\ level_at(last.rows, 1, "106") = 1
    /\ last.rows[2].name = "Bob" /\ level_at(last.rows, 2, "106") = 2
    /\ last.rows[3].name = NONE /\ level_at(last.rows, 3, "106") = 2
    /\ \E e \in last.levels : e.id = "106" /\ e.max_level = 2 /\ e.player_name = "Bob"

(* ------------------------------------------------------------------ *)
(* Properties of the distances                                          *)
(* ------------------------------------------------------------------ *)
is_triple(coord) ==
    /\ Len(split(coord)) = 3
    /\ \A i \in 1..3 : parse_i64(split(coord)[i]).ok

stated_distance(dg, ds, dp) ==
    IF dg # 0 THEN 20000 * abs(dg)
    ELSE IF ds # 0 THEN 2700 + 95 * abs(ds)
    ELSE IF dp # 0 THEN 1000 + 5 * abs(dp)
    ELSE 5

(* C22: in every overview response, the distance of each entry whose    *)
(* coordinate is a triple of integers is 20000 * |dg| if the galaxies    *)
(* differ, else 2700 + 95 * |ds| if the systems differ, else             *)
(* 1000 + 5 * |dp| if the positions differ, else 5, taken against the    *)
(* target of the request; and the entries are in non-decreasing order of *)
(* distance.                                                             *)
C22_DistanceAndOrder ==
    last.kind = "players_overview" =>
        /\ \A i \in 1..Len(last.planets) :
              LET e == last.planets[i]
                  parts == split(e.coordinates)
              IN  is_triple(e.coordinates) =>
                     e.distance = stated_distance(parse_i64(parts[1]).val - last.req.galaxy,
                                                  parse_i64(parts[2]).val - last.req.system,
                                                  parse_i64(parts[3]).val - last.req.planet)
        /\ \A i \in 1..Len(last.planets) : \A j \in 1..Len(last.planets) :
              i < j => last.planets[i].distance <= last.planets[j].distance

(* C22 witness: against target 3:1:1 the request lists 1:1:1 and then  *)
(* 2:1:1; the response has 2:1:1 at 20000 before 1:1:1 at 40000.         *)
C22_Witness ==
    /\ last.kind = "players_overview"
    /\ last.req.galaxy = 3 /\ last.req.system = 1 /\ last.req.planet = 1
    /\ last.req.own_planets = <<(<<"1", ":", "1", ":", "1">>), (<<"2", ":", "1", ":", "1">>)>>
    /\ Len(last.planets) = 2
    /\ last.planets[1].coordinates = <<"2", ":", "1", ":", "1">>
    /\ last.planets[1].distance = 20000
    /\ last.planets[2].distance = 40000

(* ------------------------------------------------------------------ *)
(* Properties of the sync freshness                                     *)
(* ------------------------------------------------------------------ *)
bucket(t) == t \div 12

(* C23: a row of the stat view is flagged is_synced exactly when it has *)
(* a timestamp that parses and lies in the same six-hour bucket as now,  *)
(* the buckets starting at hours 0, 6, 12 and 18 UTC of each day.        *)
C23_SyncedIffSameBucket ==
    last.kind = "stat_view" =>
        (last.is_synced <=>
            /\ last.last_sync_at.some /\ last.last_sync_at.parses
            /\ bucket(last.last_sync_at.dt) = bucket(now))

(* C23 witness: at 06:30 of day 1 a sync recorded at 05:30, one hour    *)
(* before, is not flagged.                                               *)
C23_Witness ==
    /\ last.kind = "stat_view" /\ now = 48 + 13
    /\ last.last_sync_at.some /\ last.last_sync_at.parses
    /\ last.last_sync_at.dt = 48 + 11
    /\ ~last.is_synced

(* ------------------------------------------------------------------ *)
(* Properties of the export document                                    *)
(* ------------------------------------------------------------------ *)
slot_keys == {fmt_int(i) : i \in 1..15}

(* C24: in every reachable store, each galaxy:system group of the       *)
(* export document has exactly the keys "1" to "15" and "timepoint".     *)
C24_FifteenSlotsAndTimepoint ==
    \A tie \in {"low", "high"} : \A g \in build_export_json(db, tie) :
        {e.key : e \in g.map} = slot_keys \cup {timepoint_key}

(* ------------------------------------------------------------------ *)
(* Properties of the authentication                                     *)
(* ------------------------------------------------------------------ *)
handler_waiting == \E i \in 1..Len(inflight) : inflight[i].kind = "request"

(* C25: an authenticated request can go on to its handler whatever the  *)
(* state of its spawned last-activity update, and its response is the    *)
(* handler's own, ok with the role found at authentication, whether the  *)
(* update succeeded, failed or has not run.                              *)
C25_ActivityUpdateDetached ==
    /\ handler_waiting => ENABLED RunHandler
    /\ (last.kind = "response" /\ last.task # "none") =>
          /\ last.task \in {"pending", "ok", "failed"}
          /\ last.result = "ok"
          /\ \E u \in SeedUsers : last.is_admin = (u.role = "admin")

(* C25 witness: a request was answered ok although its update failed,   *)
(* and the update of another request is still pending.                   *)
C25_Witness ==
    /\ last.kind = "response" /\ last.task = "failed" /\ last.result = "ok"
    /\ \E i \in 1..Len(inflight) : inflight[i].kind = "task" /\ inflight[i].state = "pending"

(* ------------------------------------------------------------------ *)
(* Properties of the translation lookup                                 *)
(* ------------------------------------------------------------------ *)
resolves_to_string(locales, lang, key) ==
    /\ lang \in DOMAIN locales
    /\ \E leaf \in locales[lang] : leaf.path = split_dot(key) /\ leaf.type = "string"

(* C26: for a language that is not supported, t returns what it returns *)
(* for en; and for a key that does not resolve to a string in the        *)
(* locale of the language used, t returns the key.                       *)
C26_LookupFallbacks ==
    last.kind = "t" =>
        LET used == IF last.lang \in SUPPORTED_LANGUAGES THEN last.lang ELSE "en" IN
        /\ last.lang \notin SUPPORTED_LANGUAGES =>
              last.text = i18n_t(last.locales, "en", last.key, last.params)
        /\ ~resolves_to_string(last.locales, used, last.key) => last.text = last.key

(* C26 witness: language xx and key b.a with a parameter give the en    *)
(* text with the parameter filled in, where de has no such key.          *)
C26_Witness ==
    /\ last.kind = "t" /\ last.lang = "xx" /\ last.key = <<"b", ".", "a">>
    /\ last.params # <<>>
    /\ last.text = <<"User ", "Ann", " created">>
    /\ "de" \in DOMAIN last.locales
    /\ ~resolves_to_string(last.locales, "de", last.key)

(* ------------------------------------------------------------------ *)
(* Properties of check_messages calls in flight together                *)
(* ------------------------------------------------------------------ *)
(* C27: no message id is in the new_ids of two answered check_messages  *)
(* calls, in any interleaving of the calls.                              *)
C27_NewInOneCallOnly ==
    \A i \in 1..Len(inflight) : \A j \in 1..Len(inflight) :
        (i # j /\ inflight[i].pc = "done" /\ inflight[j].pc = "done") =>
            Range(inflight[i].new_ids) \cap Range(inflight[j].new_ids) = {}

(* ------------------------------------------------------------------ *)
(* Properties of the universe configuration                             *)
(* ------------------------------------------------------------------ *)
(* C28: an update_config request answered bad_request leaves every     *)
(* stored config value as it was.                                        *)
C28_RejectedConfigUnchanged ==
    [][(nreq' # nreq /\ last'.kind = "config" /\ last'.result = "bad_request")
          => db'.config = db.config]_vars

(* ------------------------------------------------------------------ *)
(* Properties of the user administration                                *)
(* ------------------------------------------------------------------ *)
(* C29: from a store with an admin, every interleaving of delete_user   *)
(* and update_user_role requests of authenticated admins leaves at      *)
(* least one admin user.                                                 *)
C29_AnAdminRemains == \E u \in db.users : u.role = "admin"

(* ------------------------------------------------------------------ *)
(* Properties of the statistics sync                                    *)
(* ------------------------------------------------------------------ *)
(* C30: a statistics sync whose stat_type is none of total, fleet,      *)
(* research, buildings, defense, honor changes no stored state.          *)
C30_UnknownStatTypeChangesNothing ==
    [][(nreq' # nreq /\ last'.kind = "stats" /\ stat_col(last'.req.stat_type) = NONE)
          => db' = db]_vars

====
